---- MODULE Spec2Model ----
(***************************************************************************)
(* A model of the pfm backend services: the rule-based expense parser      *)
(* (ExpenseParser), the aggregator (ExpenseAnalyzer.analyze_expenses) and  *)
(* the fallback orchestration of NLPService (parse_expense and             *)
(* chat_about_expenses) around the external text-generation capability.    *)
(*                                                                         *)
(* Text is modelled at character level.  A character is a one-character    *)
(* string, a token is a non-empty tuple of characters without white space, *)
(* and a piece of text is a tuple of tokens, standing for the tokens       *)
(* joined by single blanks.  The tokens of the model are runs of digits,   *)
(* runs of letters, and the punctuation tokens "," and "-"; the regular    *)
(* expressions of the source are translated for texts of that form.        *)
(***************************************************************************)
EXTENDS Integers, Sequences, FiniteSets, TLC

VARIABLES
    pc,         \* position of the operation in progress
    text,       \* input text of a parse request (a tuple of tokens)
    result,     \* what the operation returned: expenses and reply, or an analysis
    table,      \* transaction list handed to the analyzer / the chat request
    analysis,   \* what analyze_expenses returned for the table (chat request)
    cfg,        \* capability configuration of the service
    cap,        \* behaviour of the external capability during the request
    trace,      \* orchestration steps taken by the request, in order
    inflight,   \* number of capability calls awaiting their response
    now,        \* the clock read by datetime.now() during the request
    otp_store,  \* the process-wide store of reset codes: email -> otp and expiry
    time        \* the clock read by time.time(), in seconds

vars == <<pc, text, result, table, analysis, cfg, cap, trace, inflight, now,
          otp_store, time>>

None == "None"

-----------------------------------------------------------------------------
(* Characters.                                                             *)

Digits == <<"0","1","2","3","4","5","6","7","8","9">>

LowerLetters ==
    <<"a","b","c","d","e","f","g","h","i","j","k","l","m",
      "n","o","p","q","r","s","t","u","v","w","x","y","z">>

UpperLetters ==
    <<"A","B","C","D","E","F","G","H","I","J","K","L","M",
      "N","O","P","Q","R","S","T","U","V","W","X","Y","Z">>

Range(s) == {s[i] : i \in DOMAIN s}

IndexOf(s, c) == CHOOSE i \in DOMAIN s : s[i] = c

IsDigit(c) == c \in Range(Digits)

IsLetter(c) == c \in Range(LowerLetters) \cup Range(UpperLetters)

\* str.lower() on one character
LowerChar(c) ==
    IF c \in Range(UpperLetters) THEN LowerLetters[IndexOf(UpperLetters, c)] ELSE c

UpperChar(c) ==
    IF c \in Range(LowerLetters) THEN UpperLetters[IndexOf(LowerLetters, c)] ELSE c

\* str.lower()
Lower(s) == [i \in DOMAIN s |-> LowerChar(s[i])]

\* str.title() of a single alphabetic word
Title(w) == [i \in DOMAIN w |-> IF i = 1 THEN UpperChar(w[i]) ELSE LowerChar(w[i])]

\* \d+ matching a whole token
IsNumber(tok) == Len(tok) > 0 /\ \A i \in DOMAIN tok : IsDigit(tok[i])

\* [a-zA-Z]+ matching a whole token
IsWord(tok) == Len(tok) > 0 /\ \A i \in DOMAIN tok : IsLetter(tok[i])

\* int() of a run of digits
RECURSIVE ToInt(_)
ToInt(ds) ==
    IF Len(ds) = 0 THEN 0
    ELSE 10 * ToInt(SubSeq(ds, 1, Len(ds) - 1)) + (IndexOf(Digits, ds[Len(ds)]) - 1)

\* the tokens joined by single blanks
RECURSIVE Join(_)
Join(toks) ==
    IF Len(toks) = 0 THEN <<>>
    ELSE IF Len(toks) = 1 THEN toks[1]
    ELSE toks[1] \o <<" ">> \o Join(Tail(toks))

\* Python's "needle in hay" on strings
Contains(hay, needle) ==
    \E i \in 0..(Len(hay) - Len(needle)) :
        \A j \in 1..Len(needle) : hay[i + j] = needle[j]

\* str.replace(old, new): every non-overlapping occurrence, left to right
RECURSIVE Replace(_, _, _)
Replace(s, old, new) ==
    IF Len(s) < Len(old) THEN s
    ELSE IF SubSeq(s, 1, Len(old)) = old
         THEN new \o Replace(SubSeq(s, Len(old) + 1, Len(s)), old, new)
         ELSE <<s[1]>> \o Replace(Tail(s), old, new)

\* a token compared with a literal of a case-insensitive pattern
Is(tok, lit) == Lower(tok) = lit

IsOneOf(tok, lits) == Lower(tok) \in lits

-----------------------------------------------------------------------------
(* Keyword tables of ExpenseParser.                                        *)

categories ==
    << [name |-> <<"f","o","o","d">>, keywords |->
        <<<<"b","i","r","y","a","n","i">>, <<"p","i","z","z","a">>,
        <<"r","e","s","t","a","u","r","a","n","t">>, <<"m","e","a","l">>, <<"l","u","n","c","h">>,
        <<"d","i","n","n","e","r">>, <<"f","o","o","d">>, <<"e","a","t">>, <<"c","a","f","e">>,
        <<"s","n","a","c","k">>, <<"t","e","a">>, <<"c","o","f","f","e","e">>,
        <<"b","r","e","a","k","f","a","s","t">>, <<"m","o","m","o">>, <<"m","o","m","o","s">>,
        <<"n","o","o","d","l","e","s">>, <<"c","h","o","w","m","e","i","n">>,
        <<"c","h","o","w","m","i","n">>, <<"c","h","o","w">>, <<"r","a","m","e","n">>,
        <<"p","a","s","t","a">>, <<"r","i","c","e">>, <<"d","a","l">>, <<"c","u","r","r","y">>,
        <<"k","h","a","n","a">>, <<"k","h","a","a","n","a">>, <<"c","h","i","y","a">>,
        <<"c","h","a","i">>, <<"d","u","d","h">>, <<"m","i","l","k">>, <<"b","h","a","t">>,
        <<"d","a","a","l">>, <<"t","a","r","k","a","r","i">>, <<"s","a","b","j","i">>,
        <<"m","a","c","h","h","a">>, <<"f","i","s","h">>, <<"c","h","i","c","k","e","n">>,
        <<"m","u","t","t","o","n">>, <<"b","u","f","f">>, <<"p","o","r","k">>, <<"e","g","g">>,
        <<"a","n","d","a">>, <<"r","o","t","i">>, <<"c","h","a","p","a","t","i">>,
        <<"p","a","r","a","t","h","a">>, <<"s","a","m","o","s","a">>, <<"p","a","k","o","d","a">>,
        <<"c","h","a","a","t">>, <<"l","a","s","s","i">>, <<"l","a","s","i">>,
        <<"j","u","i","c","e">>, <<"p","a","a","n","i">>, <<"w","a","t","e","r">>,
        <<"d","r","i","n","k">>, <<"b","e","v","e","r","a","g","e">>>>],
       [name |-> <<"t","r","a","n","s","p","o","r","t">>, keywords |->
        <<<<"p","e","t","r","o","l">>, <<"f","u","e","l">>, <<"t","a","x","i">>, <<"u","b","e","r">>,
        <<"b","u","s">>, <<"t","r","a","i","n">>, <<"a","u","t","o">>,
        <<"r","i","c","k","s","h","a","w">>, <<"m","e","t","r","o">>, <<"f","l","i","g","h","t">>,
        <<"t","r","a","v","e","l">>, <<"t","e","m","p","o">>, <<"m","i","c","r","o","b","u","s">>,
        <<"b","i","k","e">>, <<"s","c","o","o","t","e","r">>, <<"c","a","r">>,
        <<"g","a","a","d","i">>>>],
       [name |-> <<"g","r","o","c","e","r","i","e","s">>, keywords |->
        <<<<"g","r","o","c","e","r","y">>, <<"g","r","o","c","e","r","i","e","s">>,
        <<"v","e","g","e","t","a","b","l","e","s">>, <<"f","r","u","i","t","s">>,
        <<"m","a","r","k","e","t">>, <<"s","u","p","e","r","m","a","r","k","e","t">>,
        <<"s","t","o","r","e">>, <<"m","i","l","k">>, <<"b","r","e","a","d">>,
        <<"a","p","p","l","e">>, <<"g","a","r","l","i","c">>, <<"p","o","t","a","t","o">>,
        <<"o","n","i","o","n">>, <<"t","o","m","a","t","o">>, <<"s","a","b","j","i">>,
        <<"t","a","r","k","a","r","i">>, <<"f","r","u","i","t","s">>, <<"p","h","a","l">>,
        <<"a","l","u">>, <<"p","y","a","j">>, <<"l","a","s","u","n">>,
        <<"d","h","a","n","i","y","a">>, <<"h","a","r","i","y","o">>, <<"g","r","e","e","n">>>>],
       [name |-> <<"s","h","o","p","p","i","n","g">>, keywords |->
        <<<<"c","l","o","t","h","e","s">>, <<"s","h","o","e","s">>,
        <<"s","h","o","p","p","i","n","g">>, <<"s","h","i","r","t">>, <<"d","r","e","s","s">>,
        <<"b","a","g">>, <<"a","c","c","e","s","s","o","r","i","e","s">>,
        <<"k","a","p","a","d","a">>, <<"j","u","t","t","a">>, <<"c","h","a","p","p","a","l","s">>,
        <<"s","a","n","d","a","l","s">>>>],
       [name |-> <<"u","t","i","l","i","t","i","e","s">>, keywords |->
        <<<<"e","l","e","c","t","r","i","c","i","t","y">>, <<"w","a","t","e","r">>,
        <<"i","n","t","e","r","n","e","t">>, <<"p","h","o","n","e">>, <<"m","o","b","i","l","e">>,
        <<"w","i","f","i">>, <<"b","i","l","l">>, <<"c","u","r","r","e","n","t">>,
        <<"p","a","a","n","i">>, <<"n","e","t">>, <<"r","e","c","h","a","r","g","e">>>>],
       [name |-> <<"e","n","t","e","r","t","a","i","n","m","e","n","t">>, keywords |->
        <<<<"m","o","v","i","e">>, <<"g","a","m","e">>, <<"p","a","r","t","y">>,
        <<"c","i","n","e","m","a">>, <<"s","h","o","w">>, <<"c","o","n","c","e","r","t">>,
        <<"f","i","l","m">>, <<"p","i","c","t","u","r","e">>, <<"k","h","e","l">>>>],
       [name |-> <<"a","c","c","o","m","m","o","d","a","t","i","o","n">>, keywords |->
        <<<<"h","o","t","e","l">>, <<"s","t","a","y">>, <<"b","o","o","k","i","n","g">>,
        <<"r","e","s","o","r","t">>, <<"l","o","d","g","e">>,
        <<"g","u","e","s","t"," ","h","o","u","s","e">>, <<"a","i","r","b","n","b">>>>],
       [name |-> <<"r","e","n","t">>, keywords |->
        <<<<"r","e","n","t">>, <<"h","o","u","s","e">>, <<"a","p","a","r","t","m","e","n","t">>,
        <<"r","o","o","m">>, <<"g","h","a","r">>, <<"k","o","t","h","a">>, <<"b","h","a","d","a">>>>],
       [name |-> <<"l","o","a","n">>, keywords |->
        <<<<"l","o","a","n">>, <<"l","e","n","d">>, <<"b","o","r","r","o","w">>, <<"d","e","b","t">>,
        <<"r","i","n">>, <<"g","a","v","e">>, <<"d","i","y","e">>, <<"l","i","y","e">>,
        <<"u","d","h","a","r">>, <<"q","a","r","z">>>>],
       [name |-> <<"i","n","c","o","m","e">>, keywords |->
        <<<<"s","a","l","a","r","y">>, <<"b","o","n","u","s">>,
        <<"i","n","c","e","n","t","i","v","e">>, <<"r","e","f","u","n","d">>,
        <<"i","n","c","o","m","e">>, <<"e","a","r","n","i","n","g">>,
        <<"p","a","y","m","e","n","t">>, <<"r","e","c","e","i","v","e","d">>>>],
       [name |-> <<"e","d","u","c","a","t","i","o","n">>, keywords |->
        <<<<"a","d","m","i","s","s","i","o","n">>, <<"f","e","e">>, <<"t","u","i","t","i","o","n">>,
        <<"s","c","h","o","o","l">>, <<"c","o","l","l","e","g","e">>,
        <<"u","n","i","v","e","r","s","i","t","y">>, <<"c","o","u","r","s","e">>,
        <<"c","l","a","s","s">>, <<"b","o","o","k">>, <<"s","t","u","d","y">>,
        <<"e","d","u","c","a","t","i","o","n">>, <<"e","x","a","m">>, <<"t","e","s","t">>>>] >>

nepali_mappings ==
    << <<<<"c","h","o","w","m","i","n">>, <<"c","h","o","w","m","e","i","n">>>>,
       <<<<"c","h","o","w"," ","m","i","n">>, <<"c","h","o","w","m","e","i","n">>>>,
       <<<<"k","h","a","n","a">>, <<"f","o","o","d">>>>,
       <<<<"k","h","a","a","n","a">>, <<"f","o","o","d">>>>,
       <<<<"c","h","i","y","a">>, <<"t","e","a">>>>,
       <<<<"c","h","a","i">>, <<"t","e","a">>>>,
       <<<<"d","u","d","h">>, <<"m","i","l","k">>>>,
       <<<<"p","a","a","n","i">>, <<"w","a","t","e","r">>>>,
       <<<<"b","h","a","t">>, <<"r","i","c","e">>>>,
       <<<<"d","a","a","l">>, <<"d","a","l">>>>,
       <<<<"t","a","r","k","a","r","i">>, <<"v","e","g","e","t","a","b","l","e","s">>>>,
       <<<<"s","a","b","j","i">>, <<"v","e","g","e","t","a","b","l","e","s">>>>,
       <<<<"m","a","c","h","h","a">>, <<"f","i","s","h">>>>,
       <<<<"a","n","d","a">>, <<"e","g","g">>>>,
       <<<<"l","a","s","i">>, <<"l","a","s","s","i">>>>,
       <<<<"p","h","a","l">>, <<"f","r","u","i","t","s">>>>,
       <<<<"a","l","u">>, <<"p","o","t","a","t","o">>>>,
       <<<<"p","y","a","j">>, <<"o","n","i","o","n">>>>,
       <<<<"k","a","p","a","d","a">>, <<"c","l","o","t","h","e","s">>>>,
       <<<<"j","u","t","t","a">>, <<"s","h","o","e","s">>>>,
       <<<<"g","h","a","r">>, <<"h","o","u","s","e">>>>,
       <<<<"k","o","t","h","a">>, <<"r","o","o","m">>>>,
       <<<<"g","a","a","d","i">>, <<"v","e","h","i","c","l","e">>>>,
       <<<<"c","u","r","r","e","n","t">>, <<"e","l","e","c","t","r","i","c","i","t","y">>>>,
       <<<<"a","d","m","i","s","s","i","o","n"," ","f","e","e">>, <<"a","d","m","i","s","s","i","o","n"," ","f","e","e">>>>,
       <<<<"f","e","e">>, <<"f","e","e">>>> >>

smart_categories ==
    << [name |-> <<"E","l","e","c","t","r","o","n","i","c","s">>, keywords |->
        <<<<"f","a","n">>, <<"a","c">>, <<"t","v">>, <<"f","r","i","d","g","e">>,
        <<"l","a","p","t","o","p">>, <<"p","h","o","n","e">>, <<"m","o","b","i","l","e">>,
        <<"c","o","m","p","u","t","e","r">>, <<"t","a","b","l","e","t">>,
        <<"c","a","m","e","r","a">>, <<"s","p","e","a","k","e","r">>,
        <<"h","e","a","d","p","h","o","n","e">>, <<"c","h","a","r","g","e","r">>,
        <<"a","p","p","l","i","a","n","c","e">>, <<"e","l","e","c","t","r","o","n","i","c">>>>],
       [name |-> <<"T","r","a","v","e","l">>, keywords |->
        <<<<"h","o","t","e","l">>, <<"s","t","a","y">>, <<"b","o","o","k","i","n","g">>,
        <<"r","e","s","o","r","t">>, <<"l","o","d","g","e">>, <<"a","i","r","b","n","b">>,
        <<"h","o","s","t","e","l">>>>],
       [name |-> <<"M","e","d","i","c","a","l">>, keywords |->
        <<<<"d","o","c","t","o","r">>, <<"m","e","d","i","c","i","n","e">>,
        <<"h","o","s","p","i","t","a","l">>, <<"c","l","i","n","i","c">>,
        <<"p","h","a","r","m","a","c","y">>, <<"m","e","d","i","c","a","l">>,
        <<"h","e","a","l","t","h">>>>],
       [name |-> <<"E","d","u","c","a","t","i","o","n">>, keywords |->
        <<<<"a","d","m","i","s","s","i","o","n">>, <<"f","e","e">>, <<"t","u","i","t","i","o","n">>,
        <<"s","c","h","o","o","l">>, <<"c","o","l","l","e","g","e">>,
        <<"u","n","i","v","e","r","s","i","t","y">>, <<"c","o","u","r","s","e">>,
        <<"c","l","a","s","s">>, <<"b","o","o","k">>, <<"s","t","u","d","y">>,
        <<"e","d","u","c","a","t","i","o","n">>, <<"e","x","a","m">>, <<"t","e","s","t">>>>],
       [name |-> <<"P","e","r","s","o","n","a","l"," ","C","a","r","e">>, keywords |->
        <<<<"s","a","l","o","n">>, <<"h","a","i","r","c","u","t">>, <<"b","e","a","u","t","y">>,
        <<"c","o","s","m","e","t","i","c">>, <<"s","p","a">>, <<"m","a","s","s","a","g","e">>>>],
       [name |-> <<"G","i","f","t","s">>, keywords |->
        <<<<"g","i","f","t">>, <<"p","r","e","s","e","n","t">>, <<"d","o","n","a","t","i","o","n">>,
        <<"c","h","a","r","i","t","y">>, <<"b","i","r","t","h","d","a","y">>>>],
       [name |-> <<"F","i","n","a","n","c","e">>, keywords |->
        <<<<"i","n","s","u","r","a","n","c","e">>, <<"p","r","e","m","i","u","m">>,
        <<"p","o","l","i","c","y">>, <<"b","a","n","k">>, <<"f","e","e">>,
        <<"c","h","a","r","g","e">>>>],
       [name |-> <<"M","a","i","n","t","e","n","a","n","c","e">>, keywords |->
        <<<<"r","e","p","a","i","r">>, <<"f","i","x">>,
        <<"m","a","i","n","t","e","n","a","n","c","e">>, <<"s","e","r","v","i","c","e">>,
        <<"c","l","e","a","n","i","n","g">>>>],
       [name |-> <<"F","i","t","n","e","s","s">>, keywords |->
        <<<<"g","y","m">>, <<"f","i","t","n","e","s","s">>, <<"s","p","o","r","t">>,
        <<"e","x","e","r","c","i","s","e">>, <<"y","o","g","a">>,
        <<"s","w","i","m","m","i","n","g">>>>],
       [name |-> <<"F","o","o","d">>, keywords |->
        <<<<"c","h","i","y","a">>, <<"c","h","a","i">>, <<"t","e","a">>, <<"c","o","f","f","e","e">>,
        <<"d","r","i","n","k">>, <<"b","e","v","e","r","a","g","e">>, <<"s","n","a","c","k">>>>] >>

\* the words and numbers that the patterns, the keyword tables and the examples
\* spell, each as its sequence of characters
w_the == <<"t","h","e">>

w_a == <<"a">>

w_an == <<"a","n">>

w_owe == <<"o","w","e">>

w_owes == <<"o","w","e","s">>

w_ow == <<"o","w">>

w_ows == <<"o","w","s">>

w_owz == <<"o","w","z">>

w_owse == <<"o","w","s","e">>

w_debt == <<"d","e","b","t">>

w_borrow == <<"b","o","r","r","o","w">>

w_borrows == <<"b","o","r","r","o","w","s">>

w_lend == <<"l","e","n","d">>

w_lends == <<"l","e","n","d","s">>

w_udhar == <<"u","d","h","a","r">>

w_qarz == <<"q","a","r","z">>

w_to == <<"t","o">>

w_from == <<"f","r","o","m">>

w_got == <<"g","o","t">>

w_received == <<"r","e","c","e","i","v","e","d">>

w_salary == <<"s","a","l","a","r","y">>

w_today == <<"t","o","d","a","y">>

w_bonus == <<"b","o","n","u","s">>

w_incentive == <<"i","n","c","e","n","t","i","v","e">>

w_refund == <<"r","e","f","u","n","d">>

w_income == <<"i","n","c","o","m","e">>

w_earning == <<"e","a","r","n","i","n","g">>

w_payment == <<"p","a","y","m","e","n","t">>

w_back == <<"b","a","c","k">>

w_returned == <<"r","e","t","u","r","n","e","d">>

w_gave == <<"g","a","v","e">>

w_lent == <<"l","e","n","t">>

w_for == <<"f","o","r">>

w_loan == <<"l","o","a","n">>

w_rin == <<"r","i","n">>

w_paid == <<"p","a","i","d">>

w_payed == <<"p","a","y","e","d">>

w_by == <<"b","y">>

w_case == <<"c","a","s","e">>

w_cover == <<"c","o","v","e","r">>

w_stand == <<"s","t","a","n","d">>

w_holder == <<"h","o","l","d","e","r">>

w_bag == <<"b","a","g">>

w_box == <<"b","o","x">>

w_pack == <<"p","a","c","k">>

w_set == <<"s","e","t">>

w_kit == <<"k","i","t">>

w_lunch == <<"l","u","n","c","h">>

w_dinner == <<"d","i","n","n","e","r">>

w_breakfast == <<"b","r","e","a","k","f","a","s","t">>

w_snack == <<"s","n","a","c","k">>

w_meal == <<"m","e","a","l">>

w_tea == <<"t","e","a">>

w_coffee == <<"c","o","f","f","e","e">>

w_food == <<"f","o","o","d">>

w_on == <<"o","n">>

w_spend == <<"s","p","e","n","d">>

w_cost == <<"c","o","s","t">>

w_costs == <<"c","o","s","t","s">>

w_of == <<"o","f">>

w_and == <<"a","n","d">>

w_expense == <<"e","x","p","e","n","s","e">>

w_spent == <<"s","p","e","n","t">>

w_Rs == <<"R","s">>

w_dash == <<"-">>

w_comma == <<",">>

w_sonu == <<"s","o","n","u">>

w_400 == <<"4","0","0">>

w_gaurav == <<"g","a","u","r","a","v">>

w_100000 == <<"1","0","0","0","0","0">>

w_50000 == <<"5","0","0","0","0">>

w_5000 == <<"5","0","0","0">>

w_2000 == <<"2","0","0","0">>

w_1000 == <<"1","0","0","0">>

w_week == <<"w","e","e","k">>

w_300 == <<"3","0","0">>

w_rent == <<"r","e","n","t">>

w_20000 == <<"2","0","0","0","0">>

w_100 == <<"1","0","0">>

w_samosa == <<"s","a","m","o","s","a">>

w_80 == <<"8","0">>

w_500 == <<"5","0","0">>

w_petrol == <<"p","e","t","r","o","l">>

w_hotel == <<"h","o","t","e","l">>

w_150 == <<"1","5","0">>

w_momo == <<"m","o","m","o">>

w_Purchased == <<"P","u","r","c","h","a","s","e","d">>

w_Phone == <<"P","h","o","n","e">>

w_Paid == <<"P","a","i","d">>

w_Case == <<"C","a","s","e">>

w_fan == <<"f","a","n">>

w_4000 == <<"4","0","0","0">>

w_ac == <<"a","c">>

w_200000 == <<"2","0","0","0","0","0">>

w_grocery == <<"g","r","o","c","e","r","y">>

w_biryani == <<"b","i","r","y","a","n","i">>

w_chiya == <<"c","h","i","y","a">>

w_admission == <<"a","d","m","i","s","s","i","o","n">>

w_fee == <<"f","e","e">>

w_50 == <<"5","0">>

w_taken == <<"t","a","k","e","n">>

w_munchun == <<"m","u","n","c","h","u","n">>

w_3000 == <<"3","0","0","0">>

w_0 == <<"0">>

w_Salary == <<"S","a","l","a","r","y">>

w_transport == <<"t","r","a","n","s","p","o","r","t">>

w_shopping == <<"s","h","o","p","p","i","n","g">>

w_medical == <<"m","e","d","i","c","a","l">>

w_other == <<"o","t","h","e","r">>

w_item == <<"i","t","e","m">>

w_Income == <<"I","n","c","o","m","e">>

w_Food == <<"F","o","o","d">>

w_total == <<"t","o","t","a","l">>

w_this == <<"t","h","i","s">>
w_current == <<"c","u","r","r","e","n","t">>
w_last == <<"l","a","s","t">>
w_previous == <<"p","r","e","v","i","o","u","s">>
w_month == <<"m","o","n","t","h">>
w_yesterday == <<"y","e","s","t","e","r","d","a","y">>
w_days == <<"d","a","y","s">>
w_day == <<"d","a","y">>
w_summary == <<"s","u","m","m","a","r","y">>
w_market == <<"m","a","r","k","e","t">>
w_how == <<"h","o","w">>
w_much == <<"m","u","c","h">>
w_did == <<"d","i","d">>
w_i == <<"i">>
w_in == <<"i","n">>
w_march == <<"m","a","r","c","h">>
w_february == <<"f","e","b","r","u","a","r","y">>
w_feb == <<"f","e","b">>
w_what == <<"w","h","a","t">>
w_is == <<"i","s">>
w_my == <<"m","y">>
w_average == <<"a","v","e","r","a","g","e">>
w_daily == <<"d","a","i","l","y">>
w_most == <<"m","o","s","t">>
w_expensive == <<"e","x","p","e","n","s","i","v","e">>
w_many == <<"m","a","n","y">>
w_count == <<"c","o","u","n","t">>
w_number == <<"n","u","m","b","e","r">>
w_who == <<"w","h","o">>
w_help == <<"h","e","l","p">>
w_can == <<"c","a","n">>
w_you == <<"y","o","u">>
w_balance == <<"b","a","l","a","n","c","e">>
w_net == <<"n","e","t">>
w_remaining == <<"r","e","m","a","i","n","i","n","g">>
w_save == <<"s","a","v","e">>
w_saved == <<"s","a","v","e","d">>
w_category == <<"c","a","t","e","g","o","r","y">>
w_breakdown == <<"b","r","e","a","k","d","o","w","n">>
w_categories == <<"c","a","t","e","g","o","r","i","e","s">>
w_where == <<"w","h","e","r","e">>
w_recent == <<"r","e","c","e","n","t">>
w_latest == <<"l","a","t","e","s","t">>
w_all == <<"a","l","l">>
w_overall == <<"o","v","e","r","a","l","l">>
w_everything == <<"e","v","e","r","y","t","h","i","n","g">>
w_blast == <<"b","l","a","s","t">>
w_7 == <<"7">>
w_2 == <<"2">>
w_show == <<"s","h","o","w">>
w_me == <<"m","e">>
w_transactions == <<"t","r","a","n","s","a","c","t","i","o","n","s">>
w_gym == <<"g","y","m">>
w_steak == <<"s","t","e","a","k">>
w_bank == <<"b","a","n","k">>
w_xyz == <<"x","y","z">>
w_phone == <<"p","h","o","n","e">>
w_bill == <<"b","i","l","l">>
w_Biryani == <<"B","i","r","y","a","n","i">>
w_pizza == <<"p","i","z","z","a">>
w_hello == <<"h","e","l","l","o">>
w_Rent == <<"R","e","n","t">>
w_Transport == <<"T","r","a","n","s","p","o","r","t">>
w_taxi == <<"t","a","x","i">>
w_Shopping == <<"S","h","o","p","p","i","n","g">>

\* the example inputs of the source comments and of the specification's scenarios
Examples ==
    { <<w_sonu, w_owes, w_400, w_to, w_gaurav>>,
      <<w_got, w_salary, w_100000>>,
      <<w_got, w_salary, w_today, w_50000>>,
      <<w_salary, w_100000, w_received>>,
      <<w_bonus, w_5000>>,
      <<w_incentive, w_2000>>,
      <<w_refund, w_1000>>,
      <<w_got, w_back, w_400, w_from, w_sonu>>,
      <<w_gave, w_sonu, w_400, w_for, w_a, w_week>>,
      <<w_gave, w_gaurav, w_300, w_loan>>,
      <<w_loan, w_paid, w_400>>,
      <<w_rent, w_sonu, w_20000>>,
      <<w_tea, w_gaurav, w_100>>,
      <<w_samosa, w_for, w_lunch, w_80>>,
      <<w_500, w_for, w_petrol>>,
      <<w_100, w_on, w_tea>>,
      <<w_spend, w_100, w_on, w_tea>>,
      <<w_paid, w_5000, w_for, w_hotel>>,
      <<w_150, w_spend, w_on, w_momo>>,
      <<w_Purchased, w_Phone, w_dash, w_Paid, w_by, w_Case, w_500>>,
      <<w_rent, w_20000, w_paid, w_by, w_sonu>>,
      <<w_fan, w_cost, w_4000>>,
      <<w_ac, w_costs, w_200000>>,
      <<w_Purchased, w_Phone, w_of, w_500>>,
      <<w_grocery, w_300>>,
      <<w_biryani, w_500>>,
      <<w_100, w_chiya>>,
      <<w_300, w_admission, w_fee>>,
      <<w_50, w_tea>>,
      <<w_500, w_on, w_biryani, w_comma, w_400, w_on, w_grocery>>,
      <<w_got, w_salary, w_50000>>,
      <<w_taken, w_loan, w_from, w_munchun, w_4000>>,
      <<w_paid, w_munchun, w_3000>>,
      <<w_loan, w_500>>,
      <<w_Rs, w_500>>,
      <<>> }

-----------------------------------------------------------------------------
(* Normalizer and Categorizer.                                             *)

c_Other == <<"O","t","h","e","r">>

c_Loan == <<"L","o","a","n">>

c_Income == <<"I","n","c","o","m","e">>

Articles == {w_the, w_a, w_an}

\* first entry of the synonym table whose key occurs in the item, or 0
RECURSIVE FirstMapping(_, _)
FirstMapping(i, item_lower) ==
    IF i > Len(nepali_mappings) THEN 0
    ELSE IF Contains(item_lower, nepali_mappings[i][1]) THEN i
    ELSE FirstMapping(i + 1, item_lower)

\* ExpenseParser._clean_item_name on an item given as tokens; yields its characters
clean_item_name(item) ==
    LET kept       == SelectSeq(item, LAMBDA tok : ~IsOneOf(tok, Articles))
        cleaned    == Join(kept)
        item_lower == Lower(cleaned)
        i          == FirstMapping(1, item_lower)
    IN  IF i = 0 THEN cleaned
        ELSE Replace(item_lower, nepali_mappings[i][1], nepali_mappings[i][2])

AnyKeyword(description, keywords) ==
    \E k \in DOMAIN keywords : Contains(description, keywords[k])

\* the last entry of a keyword table with a keyword occurring in the
\* description, or 0
LastCategory(tbl, i, description) ==
    IF \E j \in i..Len(tbl) : AnyKeyword(description, tbl[j].keywords)
    THEN CHOOSE j \in i..Len(tbl) :
             /\ AnyKeyword(description, tbl[j].keywords)
             /\ \A l \in (j + 1)..Len(tbl) : ~AnyKeyword(description, tbl[l].keywords)
    ELSE 0

\* first entry of a keyword table with a keyword occurring in the description, or 0
RECURSIVE FirstCategory(_, _, _)
FirstCategory(tbl, i, description) ==
    IF i > Len(tbl) THEN 0
    ELSE IF AnyKeyword(description, tbl[i].keywords) THEN i
    ELSE FirstCategory(tbl, i + 1, description)

\* ExpenseParser._smart_categorize
smart_categorize(description) ==
    LET i == FirstCategory(smart_categories, 1, description)
    IN  IF i = 0 THEN c_Other ELSE smart_categories[i].name

\* ExpenseParser._categorize
categorize(description) ==
    LET description_lower == Lower(description)
        i == FirstCategory(categories, 1, description_lower)
    IN  IF i = 0 THEN smart_categorize(description_lower) ELSE Title(categories[i].name)

-----------------------------------------------------------------------------
(* PatternCascade: ExpenseParser._parse_single_expense.  Each rule yields  *)
(* <<>> when its pattern does not match and <<transaction>> when it does.  *)

NoMatch == <<>>

\* longest prefix / suffix of letters of a token
LeadLetters(tok) ==
    LET k == CHOOSE n \in 0..Len(tok) :
                 /\ \A j \in 1..n : IsLetter(tok[j])
                 /\ (n < Len(tok) => ~IsLetter(tok[n + 1]))
    IN  SubSeq(tok, 1, k)

TrailLetters(tok) ==
    LET k == CHOOSE n \in 0..Len(tok) :
                 /\ \A j \in (Len(tok) - n + 1)..Len(tok) : IsLetter(tok[j])
                 /\ (n < Len(tok) => ~IsLetter(tok[Len(tok) - n]))
    IN  SubSeq(tok, Len(tok) - k + 1, Len(tok))

AllWords(toks) == \A i \in DOMAIN toks : IsWord(toks[i])

\* the item captured by (?:the\s+)?(.+)$ from the remaining tokens
AfterThe(rest, ignorecase) ==
    IF Len(rest) >= 2 /\ (IF ignorecase THEN Is(rest[1], w_the) ELSE rest[1] = w_the)
    THEN Tail(rest) ELSE rest

\* a transaction whose item is normalized and categorized
Expense(amount, item, payer, rule) ==
    LET name == clean_item_name(item)
    IN  <<[amount |-> ToInt(amount), item |-> Lower(name), category |-> categorize(name),
           paid_by |-> payer, rule |-> rule]>>

\* a transaction whose item and category the rule fixes
Fixed(amount, item, category, payer, rule) ==
    <<[amount |-> amount, item |-> item, category |-> category,
       paid_by |-> payer, rule |-> rule]>>

\* the simple pattern when the item is one word only
simple_pattern_one_word(t) ==
    IF Len(t) = 2 /\ IsNumber(t[1])
    THEN Expense(t[1], Tail(t), <<>>, "simple")
    ELSE NoMatch

\* ^(\d+)\s+(.+)$
simple_pattern(t) ==
    IF Len(t) >= 2 /\ IsNumber(t[1])
    THEN Expense(t[1], Tail(t), <<>>, "simple")
    ELSE NoMatch

debt_keywords ==
    {w_owe, w_owes, w_ow, w_ows, w_owz, w_owse, w_debt, w_borrow, w_borrows,
     w_lend, w_lends, w_udhar, w_qarz}

OwesAt(t, i) ==
    /\ TrailLetters(t[i]) # <<>>
    /\ IsOneOf(t[i + 1], debt_keywords)
    /\ IsNumber(t[i + 2])
    /\ IsOneOf(t[i + 3], {w_to, w_from})
    /\ LeadLetters(t[i + 4]) # <<>>

\* re.search of ([a-zA-Z]+)\s+debt_keywords\s+(\d+)\s+(?:to|from)\s+([a-zA-Z]+)
owes_pattern(t) ==
    LET at == {i \in 1..(Len(t) - 4) : OwesAt(t, i)}
    IN  IF at = {} THEN NoMatch
        ELSE LET i        == CHOOSE m \in at : \A o \in at : m <= o
                 debtor   == TrailLetters(t[i])
                 creditor == LeadLetters(t[i + 4])
             IN  Fixed(ToInt(t[i + 2]),
                       Lower(debtor) \o <<" ">> \o w_owes \o <<" ">> \o Lower(creditor),
                       c_Loan, Title(debtor), "owes")

\* salary_pattern when the amount is stored as written, not negated
salary_pattern_not_negated(t) ==
    IF /\ Len(t) \in {3, 4}
       /\ IsOneOf(t[1], {w_got, w_received})
       /\ Is(t[2], w_salary)
       /\ (Len(t) = 4 => Is(t[3], w_today))
       /\ IsNumber(t[Len(t)])
    THEN Fixed(ToInt(t[Len(t)]), w_salary, c_Income, <<>>, "salary")
    ELSE NoMatch

\* ^(?:got|received)\s+salary\s+(?:today\s+)?(\d+)$
salary_pattern(t) ==
    IF /\ Len(t) \in {3, 4}
       /\ IsOneOf(t[1], {w_got, w_received})
       /\ Is(t[2], w_salary)
       /\ (Len(t) = 4 => Is(t[3], w_today))
       /\ IsNumber(t[Len(t)])
    THEN Fixed(-ToInt(t[Len(t)]), w_salary, c_Income, <<>>, "salary")
    ELSE NoMatch

\* ^salary\s+(\d+)\s+(?:received|got)$
salary_pattern2(t) ==
    IF /\ Len(t) = 3
       /\ Is(t[1], w_salary)
       /\ IsNumber(t[2])
       /\ IsOneOf(t[3], {w_received, w_got})
    THEN Fixed(-ToInt(t[2]), w_salary, c_Income, <<>>, "salary2")
    ELSE NoMatch

income_nouns ==
    {w_salary, w_bonus, w_incentive, w_refund, w_income, w_earning, w_payment, w_received}

\* ^(salary|bonus|incentive|refund|income|earning|payment|received)\s+(\d+)$
income_pattern(t) ==
    IF Len(t) = 2 /\ IsOneOf(t[1], income_nouns) /\ IsNumber(t[2])
    THEN Fixed(-ToInt(t[2]), Lower(t[1]), c_Income, <<>>, "income")
    ELSE NoMatch

\* ^(?:got\s+back|received|returned)\s+(\d+)\s+from\s+([a-zA-Z]+)
repayment_pattern(t) ==
    LET k == IF Len(t) >= 2 /\ Is(t[1], w_got) /\ Is(t[2], w_back) THEN 2
             ELSE IF Len(t) >= 1 /\ IsOneOf(t[1], {w_received, w_returned}) THEN 1
             ELSE 0
    IN  IF /\ k > 0
           /\ Len(t) >= k + 3
           /\ IsNumber(t[k + 1])
           /\ Is(t[k + 2], w_from)
           /\ LeadLetters(t[k + 3]) # <<>>
        THEN Fixed(-ToInt(t[k + 1]), w_loan \o <<" ">> \o <<"r","e","p","a","y","m","e","n","t">>,
                   c_Loan, Title(LeadLetters(t[k + 3])), "repayment")
        ELSE NoMatch

gave_verbs == {w_gave, w_lend, w_lent}

\* ^(?:gave|lend|lent)\s+([a-zA-Z]+)\s+(\d+)\s+for\s+(.+)$
gave_duration_pattern(t) ==
    IF /\ Len(t) >= 5
       /\ IsOneOf(t[1], gave_verbs)
       /\ IsWord(t[2])
       /\ IsNumber(t[3])
       /\ Is(t[4], w_for)
    THEN Fixed(ToInt(t[3]), w_loan, c_Loan, Title(t[2]), "gave_duration")
    ELSE NoMatch

\* ^(?:gave|lend|lent)\s+([a-zA-Z]+)\s+(\d+)\s*(?:loan|rin|udhar)?$
loan_pattern(t) ==
    IF /\ Len(t) \in {3, 4}
       /\ IsOneOf(t[1], gave_verbs)
       /\ IsWord(t[2])
       /\ IsNumber(t[3])
       /\ (Len(t) = 4 => IsOneOf(t[4], {w_loan, w_rin, w_udhar}))
    THEN Fixed(ToInt(t[3]), w_loan, c_Loan, Title(t[2]), "loan")
    ELSE NoMatch

loan_given == w_loan \o <<" ">> \o <<"g","i","v","e","n">>

\* ^loan\s+paid\s+(\d+)$
loan_paid_pattern(t) ==
    IF Len(t) = 3 /\ Is(t[1], w_loan) /\ Is(t[2], w_paid) /\ IsNumber(t[3])
    THEN Fixed(ToInt(t[3]), loan_given, c_Loan, <<>>, "loan_paid")
    ELSE NoMatch

common_item_words == {w_case, w_cover, w_stand, w_holder, w_bag, w_box, w_pack, w_set, w_kit}

food_words == {w_lunch, w_dinner, w_breakfast, w_snack, w_meal, w_tea, w_coffee, w_food}

\* ^([a-zA-Z\s]+?)\s+([a-zA-Z]+)\s+(\d+)$, kept only for a one-word item and a
\* person that is no food or container word
pattern1(t) ==
    IF /\ Len(t) >= 3
       /\ AllWords(SubSeq(t, 1, Len(t) - 1))
       /\ IsNumber(t[Len(t)])
       /\ ~IsOneOf(t[Len(t) - 1], food_words)
       /\ ~IsOneOf(t[Len(t) - 1], common_item_words)
       /\ Len(t) - 2 = 1
    THEN Expense(t[3], <<t[1]>>, Title(t[2]), "item_person")
    ELSE NoMatch

\* ^([a-zA-Z\s]+?)\s+(?:for|on)\s+([a-zA-Z\s]+?)\s+(\d+)$
pattern2a(t) ==
    LET at == {k \in 2..(Len(t) - 2) : t[k] \in {w_for, w_on}}
    IN  IF /\ Len(t) >= 4
           /\ AllWords(SubSeq(t, 1, Len(t) - 1))
           /\ IsNumber(t[Len(t)])
           /\ at # {}
        THEN LET k == CHOOSE m \in at : \A o \in at : m <= o
             IN  Expense(t[Len(t)],
                         SubSeq(t, 1, k - 1) \o <<w_for>> \o SubSeq(t, k + 1, Len(t) - 1),
                         <<>>, "item_for_context")
        ELSE NoMatch

\* ^(\d+)\s+(?:for|on)\s+(?:the\s+)?(.+)$
pattern2(t) ==
    IF Len(t) >= 3 /\ IsNumber(t[1]) /\ t[2] \in {w_for, w_on}
    THEN Expense(t[1], AfterThe(SubSeq(t, 3, Len(t)), FALSE), <<>>, "amount_for_item")
    ELSE NoMatch

\* ^spend\s+(\d+)\s+on\s+(?:the\s+)?(.+)$
pattern3(t) ==
    IF Len(t) >= 4 /\ Is(t[1], w_spend) /\ IsNumber(t[2]) /\ Is(t[3], w_on)
    THEN Expense(t[2], AfterThe(SubSeq(t, 4, Len(t)), TRUE), <<>>, "spend_on")
    ELSE NoMatch

\* ^(?:paid|payed)\s+(\d+)\s+for\s+(?:the\s+)?(.+)$
paid_pattern(t) ==
    IF Len(t) >= 4 /\ IsOneOf(t[1], {w_paid, w_payed}) /\ IsNumber(t[2]) /\ Is(t[3], w_for)
    THEN Expense(t[2], AfterThe(SubSeq(t, 4, Len(t)), TRUE), <<>>, "paid_for")
    ELSE NoMatch

\* ^(\d+)\s+spend\s+on\s+(?:the\s+)?(.+)$
pattern3b(t) ==
    IF Len(t) >= 4 /\ IsNumber(t[1]) /\ Is(t[2], w_spend) /\ Is(t[3], w_on)
    THEN Expense(t[1], AfterThe(SubSeq(t, 4, Len(t)), TRUE), <<>>, "amount_spend_on")
    ELSE NoMatch

\* ^(.+?)\s*-\s*paid\s+by\s+([a-zA-Z]+)\s+(\d+)$
pattern4a(t) ==
    IF /\ Len(t) >= 6
       /\ t[Len(t) - 4] = w_dash
       /\ Is(t[Len(t) - 3], w_paid)
       /\ Is(t[Len(t) - 2], w_by)
       /\ IsWord(t[Len(t) - 1])
       /\ IsNumber(t[Len(t)])
    THEN Expense(t[Len(t)], SubSeq(t, 1, Len(t) - 5), Title(t[Len(t) - 1]), "dash_paid_by")
    ELSE NoMatch

\* ^([a-zA-Z\s]+?)\s+(\d+)\s+paid\s+by\s+([a-zA-Z]+)$
pattern4(t) ==
    IF /\ Len(t) >= 5
       /\ AllWords(SubSeq(t, 1, Len(t) - 4))
       /\ IsNumber(t[Len(t) - 3])
       /\ Is(t[Len(t) - 2], w_paid)
       /\ Is(t[Len(t) - 1], w_by)
       /\ IsWord(t[Len(t)])
    THEN Expense(t[Len(t) - 3], SubSeq(t, 1, Len(t) - 4), Title(t[Len(t)]), "paid_by")
    ELSE NoMatch

\* ^([a-zA-Z\s]+?)\s+costs?\s+(\d+)$
cost_pattern(t) ==
    IF /\ Len(t) >= 3
       /\ AllWords(SubSeq(t, 1, Len(t) - 2))
       /\ IsOneOf(t[Len(t) - 1], {w_cost, w_costs})
       /\ IsNumber(t[Len(t)])
    THEN Expense(t[Len(t)], SubSeq(t, 1, Len(t) - 2), <<>>, "cost")
    ELSE NoMatch

\* ^(.+?)\s+of\s+(\d+)$
pattern4c(t) ==
    IF Len(t) >= 3 /\ Is(t[Len(t) - 1], w_of) /\ IsNumber(t[Len(t)])
    THEN Expense(t[Len(t)], SubSeq(t, 1, Len(t) - 2), <<>>, "of")
    ELSE NoMatch

\* ^([a-zA-Z\s]+?)\s+(\d+)$, with the special case of the item "loan"
pattern5(t) ==
    IF Len(t) >= 2 /\ AllWords(SubSeq(t, 1, Len(t) - 1)) /\ IsNumber(t[Len(t)])
    THEN IF Lower(Join(SubSeq(t, 1, Len(t) - 1))) = w_loan
         THEN Fixed(ToInt(t[Len(t)]), loan_given, c_Loan, <<>>, "loan_given")
         ELSE Expense(t[Len(t)], SubSeq(t, 1, Len(t) - 1), <<>>, "item_amount")
    ELSE NoMatch

\* the first run of digits of the text: re.search(r'(\d+)', text)
RECURSIVE LeadDigitsFrom(_, _)
LeadDigitsFrom(s, i) ==
    IF i > Len(s) \/ ~IsDigit(s[i]) THEN <<>> ELSE <<s[i]>> \o LeadDigitsFrom(s, i + 1)

FirstNumber(s) ==
    LET at == {i \in DOMAIN s : IsDigit(s[i])}
    IN  IF at = {} THEN <<>>
        ELSE LeadDigitsFrom(s, CHOOSE m \in at : \A o \in at : m <= o)

\* re.sub(r'\d+', '', text), as the tokens that remain
WithoutDigits(t) ==
    SelectSeq([i \in DOMAIN t |-> SelectSeq(t[i], LAMBDA c : ~IsDigit(c))],
              LAMBDA tok : tok # <<>>)

\* fallback: any number is the amount and the rest of the text the item
number_fallback(t) ==
    LET number == FirstNumber(Join(t))
        item   == WithoutDigits(t)
    IN  IF number # <<>> /\ item # <<>>
        THEN Expense(number, item, <<>>, "number_fallback")
        ELSE NoMatch

stop_words == {w_on, w_for, w_spent, w_the, w_paid, w_by}

\* the length of what Rs\.?\d+|Rs.?\d+ matches at position p of the text, 0
\* when it does not match there: "Rs", at most one character, a run of digits
RsSpan(s, p) ==
    IF p + 2 <= Len(s) /\ s[p] = "R" /\ s[p + 1] = "s"
    THEN IF IsDigit(s[p + 2]) THEN 2 + Len(LeadDigitsFrom(s, p + 2))
         ELSE IF p + 3 <= Len(s) /\ IsDigit(s[p + 3])
              THEN 3 + Len(LeadDigitsFrom(s, p + 3))
              ELSE 0
    ELSE 0

\* re.sub(r'Rs\.?\d+|Rs.?\d+', '', text) from position p on
RECURSIVE RemoveRs(_, _)
RemoveRs(s, p) ==
    IF p > Len(s) THEN <<>>
    ELSE IF RsSpan(s, p) > 0 THEN RemoveRs(s, p + RsSpan(s, p))
    ELSE <<s[p]>> \o RemoveRs(s, p + 1)

\* the words of a text: str.split()
RECURSIVE WordsOf(_, _)
WordsOf(s, current) ==
    IF Len(s) = 0 THEN (IF current = <<>> THEN <<>> ELSE <<current>>)
    ELSE IF s[1] = " "
         THEN (IF current = <<>> THEN <<>> ELSE <<current>>) \o WordsOf(Tail(s), <<>>)
         ELSE WordsOf(Tail(s), Append(current, s[1]))

\* the words left by re.sub(r'Rs\.?\d+|Rs.?\d+', '', text)
WithoutRs(t) == WordsOf(RemoveRs(Join(t), 1), <<>>)

\* re.search(r'Rs\.?(\d+)|Rs.?(\d+)', text) finds a currency-marked amount
rs_search(t) == \E p \in 1..Len(Join(t)) : RsSpan(Join(t), p) > 0

\* last fallback: re.search(r'Rs\.?(\d+)|Rs.?(\d+)', text), the rest as description
rs_fallback(t) ==
    LET s == Join(t)
    IN  IF ~rs_search(t) THEN NoMatch
        ELSE LET p           == CHOOSE m \in 1..Len(s) :
                                    RsSpan(s, m) > 0 /\ \A o \in 1..(m - 1) : RsSpan(s, o) = 0
                 amount      == IF IsDigit(s[p + 2]) THEN LeadDigitsFrom(s, p + 2)
                                ELSE LeadDigitsFrom(s, p + 3)
                 description == SelectSeq(WithoutRs(t), LAMBDA tok : ~IsOneOf(tok, stop_words))
             IN  IF clean_item_name(description) # <<>> /\ ToInt(amount) > 0
                 THEN Expense(amount, description, <<>>, "rs_fallback")
                 ELSE NoMatch

\* the rules in the order of the source
Rule(i, t) ==
    CASE i = 1  -> simple_pattern(t)
      [] i = 2  -> owes_pattern(t)
      [] i = 3  -> salary_pattern(t)
      [] i = 4  -> salary_pattern2(t)
      [] i = 5  -> income_pattern(t)
      [] i = 6  -> repayment_pattern(t)
      [] i = 7  -> gave_duration_pattern(t)
      [] i = 8  -> loan_pattern(t)
      [] i = 9  -> loan_paid_pattern(t)
      [] i = 10 -> pattern1(t)
      [] i = 11 -> pattern2a(t)
      [] i = 12 -> pattern2(t)
      [] i = 13 -> pattern3(t)
      [] i = 14 -> paid_pattern(t)
      [] i = 15 -> pattern3b(t)
      [] i = 16 -> pattern4a(t)
      [] i = 17 -> pattern4(t)
      [] i = 18 -> cost_pattern(t)
      [] i = 19 -> pattern4c(t)
      [] i = 20 -> pattern5(t)
      [] i = 21 -> number_fallback(t)
      [] i = 22 -> rs_fallback(t)
      [] OTHER  -> NoMatch

RECURSIVE Cascade(_, _)
Cascade(i, t) ==
    IF i > 22 THEN NoMatch
    ELSE LET r == Rule(i, t) IN IF r # NoMatch THEN r ELSE Cascade(i + 1, t)

\* ExpenseParser._parse_single_expense
parse_single_expense(t) == Cascade(1, t)

\* the segments of re.split(r',|\band\b', text), empty ones dropped
RECURSIVE Split(_, _)
Split(t, current) ==
    IF Len(t) = 0 THEN (IF current = <<>> THEN <<>> ELSE <<current>>)
    ELSE IF t[1] = w_comma \/ Is(t[1], w_and)
         THEN (IF current = <<>> THEN <<>> ELSE <<current>>) \o Split(Tail(t), <<>>)
         ELSE Split(Tail(t), Append(current, t[1]))

\* the loop of parse when a segment without a match ends it
RECURSIVE ParsePartsUntilNoMatch(_)
ParsePartsUntilNoMatch(parts) ==
    IF Len(parts) = 0 \/ parse_single_expense(parts[1]) = NoMatch THEN <<>>
    ELSE parse_single_expense(parts[1]) \o ParsePartsUntilNoMatch(Tail(parts))

\* the loop of parse over the segments
RECURSIVE ParseParts(_)
ParseParts(parts) ==
    IF Len(parts) = 0 THEN <<>>
    ELSE parse_single_expense(parts[1]) \o ParseParts(Tail(parts))

\* ExpenseParser._generate_reply: the kind of reply
generate_reply(expenses) == IF expenses = <<>> THEN "no_expenses_found" ELSE "added"

\* ExpenseParser.parse
parse(t) ==
    LET expenses == ParseParts(Split(t, <<>>))
    IN  [expenses |-> expenses, reply |-> generate_reply(expenses)]

-----------------------------------------------------------------------------
(* Dates and times.  A datetime is its calendar date and its time of day   *)
(* in seconds since midnight.                                              *)

datetime(year, month, day, second) ==
    [year |-> year, month |-> month, day |-> day, second |-> second]

is_leap(year) == year % 4 = 0 /\ (year % 100 # 0 \/ year % 400 = 0)

days_in_month(year, month) ==
    IF month = 2 THEN (IF is_leap(year) THEN 29 ELSE 28)
    ELSE IF month \in {4, 6, 9, 11} THEN 30 ELSE 31

days_before_year(year) ==
    LET y == year - 1 IN y * 365 + (y \div 4) - (y \div 100) + (y \div 400)

RECURSIVE days_before_month(_, _)
days_before_month(year, month) ==
    IF month = 1 THEN 0
    ELSE days_before_month(year, month - 1) + days_in_month(year, month - 1)

\* date.toordinal(): the number of the day, 0001-01-01 being day 1
toordinal(d) == days_before_year(d.year) + days_before_month(d.year, d.month) + d.day

\* the datetime of a day number and a time of day
fromordinal(n, second) ==
    LET year  == CHOOSE y \in 1900..2100 :
                     days_before_year(y) < n /\ n <= days_before_year(y + 1)
        rest  == n - days_before_year(year)
        month == CHOOSE m \in 1..12 :
                     /\ days_before_month(year, m) < rest
                     /\ rest <= days_before_month(year, m) + days_in_month(year, m)
    IN  datetime(year, month, rest - days_before_month(year, month), second)

\* datetime.weekday(): Monday is 0
weekday(d) == (toordinal(d) + 6) % 7

\* d - timedelta(days=days)
minus_days(d, days) == fromordinal(toordinal(d) - days, d.second)

\* a < b on datetimes
earlier(a, b) ==
    \/ a.year < b.year
    \/ (a.year = b.year /\ a.month < b.month)
    \/ (a.year = b.year /\ a.month = b.month /\ a.day < b.day)
    \/ (a.year = b.year /\ a.month = b.month /\ a.day = b.day /\ a.second < b.second)

\* the clock of the requests that do not look at it
ReferenceNow == datetime(2024, 3, 15, 43200)

\* s.split(c)[0]
RECURSIVE first_part(_, _)
first_part(s, c) ==
    IF s = <<>> \/ Head(s) = c THEN <<>>
    ELSE <<Head(s)>> \o first_part(Tail(s), c)

\* s.split(c)
RECURSIVE split_on(_, _)
split_on(s, c) ==
    IF c \notin Range(s) THEN <<s>>
    ELSE <<first_part(s, c)>>
         \o split_on(SubSeq(s, Len(first_part(s, c)) + 2, Len(s)), c)

\* strptime when a day up to 31 is taken in every month
strptime_any_day(date_part) ==
    LET parts == split_on(date_part, "-")
        year  == ToInt(parts[1])
        month == ToInt(parts[2])
        day   == ToInt(parts[3])
    IN  IF /\ Len(parts) = 3
           /\ IsNumber(parts[1]) /\ Len(parts[1]) = 4 /\ year >= 1
           /\ IsNumber(parts[2]) /\ Len(parts[2]) <= 2 /\ month \in 1..12
           /\ IsNumber(parts[3]) /\ Len(parts[3]) <= 2
           /\ day \in 1..31
        THEN <<datetime(year, month, day, 0)>>
        ELSE <<>>

\* datetime.strptime(date_part, '%Y-%m-%d'): the datetime in a one-element
\* tuple, or the empty tuple where strptime raises ValueError
strptime(date_part) ==
    LET parts == split_on(date_part, "-")
        year  == ToInt(parts[1])
        month == ToInt(parts[2])
        day   == ToInt(parts[3])
    IN  IF /\ Len(parts) = 3
           /\ IsNumber(parts[1]) /\ Len(parts[1]) = 4 /\ year >= 1
           /\ IsNumber(parts[2]) /\ Len(parts[2]) <= 2 /\ month \in 1..12
           /\ IsNumber(parts[3]) /\ Len(parts[3]) <= 2
           /\ day \in 1..days_in_month(year, month)
        THEN <<datetime(year, month, day, 0)>>
        ELSE <<>>

\* exp.get('date') or exp.get('created_at') of a row without 'created_at':
\* the date string in a one-element tuple, or the empty tuple for a row
\* without a date, with the date None or with the date ''
date_val(exp) ==
    IF "date" \notin DOMAIN exp \/ exp.date = <<>> \/ exp.date[1] = <<>>
    THEN <<>>
    ELSE exp.date

\* date_val.split('T')[0] if 'T' in date_val else date_val.split(' ')[0]
date_part(s) == IF "T" \in Range(s) THEN first_part(s, "T") ELSE first_part(s, " ")

\* the date of a row as filter_by_date_range reads it: the empty tuple for a
\* row without a date or with a date that does not parse
exp_date(exp) ==
    IF date_val(exp) = <<>> THEN <<>> ELSE strptime(date_part(date_val(exp)[1]))

\* filter_by_date_range; start_date and end_date are None (the empty tuple)
\* or a datetime in a one-element tuple
filter_by_date_range(expenses_data, start_date, end_date) ==
    SelectSeq(expenses_data, LAMBDA exp :
        LET d == exp_date(exp)
        IN  /\ d # <<>>
            /\ ~(start_date # <<>> /\ earlier(d[1], start_date[1]))
            /\ ~(end_date # <<>> /\ earlier(end_date[1], d[1])))
\* ExpenseAnalyzer.months, in the order of the dict
months ==
    <<
       <<<<"j","a","n","u","a","r","y">>, 1>>,
       <<<<"j","a","n">>, 1>>,
       <<<<"f","e","b","r","u","a","r","y">>, 2>>,
       <<<<"f","e","b">>, 2>>,
       <<<<"m","a","r","c","h">>, 3>>,
       <<<<"m","a","r">>, 3>>,
       <<<<"a","p","r","i","l">>, 4>>,
       <<<<"a","p","r">>, 4>>,
       <<<<"m","a","y">>, 5>>,
       <<<<"j","u","n","e">>, 6>>,
       <<<<"j","u","n">>, 6>>,
       <<<<"j","u","l","y">>, 7>>,
       <<<<"j","u","l">>, 7>>,
       <<<<"a","u","g","u","s","t">>, 8>>,
       <<<<"a","u","g">>, 8>>,
       <<<<"s","e","p","t","e","m","b","e","r">>, 9>>,
       <<<<"s","e","p">>, 9>>,
       <<<<"s","e","p","t">>, 9>>,
       <<<<"o","c","t","o","b","e","r">>, 10>>,
       <<<<"o","c","t">>, 10>>,
       <<<<"n","o","v","e","m","b","e","r">>, 11>>,
       <<<<"n","o","v">>, 11>>,
       <<<<"d","e","c","e","m","b","e","r">>, 12>>,
       <<<<"d","e","c">>, 12>>
    >>

\* ExpenseAnalyzer.categories, in the order of the dict
analyzer_categories ==
    <<
       [name |-> <<"f","o","o","d">>, keywords |->
         <<
           <<"f","o","o","d">>, <<"b","i","r","y","a","n","i">>, <<"p","i","z","z","a">>,
           <<"r","e","s","t","a","u","r","a","n","t">>, <<"h","o","t","e","l">>,
           <<"m","e","a","l">>, <<"l","u","n","c","h">>, <<"d","i","n","n","e","r">>,
           <<"e","a","t">>, <<"c","a","f","e">>, <<"s","n","a","c","k">>,
           <<"b","r","e","a","k","f","a","s","t">>, <<"t","e","a">>,
           <<"c","o","f","f","e","e">>, <<"m","o","m","o">>,
           <<"c","h","i","c","k","e","n">>, <<"l","a","s","s","i">>,
           <<"c","h","i","y","a">>, <<"c","h","a","i">>
         >>],
       [name |-> <<"g","r","o","c","e","r","i","e","s">>, keywords |->
         <<
           <<"g","r","o","c","e","r","y">>, <<"g","r","o","c","e","r","i","e","s">>,
           <<"v","e","g","e","t","a","b","l","e","s">>, <<"f","r","u","i","t","s">>,
           <<"m","a","r","k","e","t">>, <<"s","u","p","e","r","m","a","r","k","e","t">>,
           <<"s","t","o","r","e">>, <<"m","i","l","k">>, <<"b","r","e","a","d">>
         >>],
       [name |-> <<"t","r","a","n","s","p","o","r","t">>, keywords |->
         <<
           <<"p","e","t","r","o","l">>, <<"f","u","e","l">>, <<"t","a","x","i">>,
           <<"u","b","e","r">>, <<"b","u","s">>, <<"t","r","a","i","n">>,
           <<"a","u","t","o">>, <<"r","i","c","k","s","h","a","w">>,
           <<"m","e","t","r","o">>, <<"f","l","i","g","h","t">>, <<"t","r","a","v","e","l">>
         >>],
       [name |-> <<"s","h","o","p","p","i","n","g">>, keywords |->
         <<
           <<"c","l","o","t","h","e","s">>, <<"s","h","o","e","s">>,
           <<"s","h","o","p","p","i","n","g">>, <<"s","h","i","r","t">>,
           <<"d","r","e","s","s">>, <<"b","a","g">>,
           <<"a","c","c","e","s","s","o","r","i","e","s">>
         >>],
       [name |-> <<"u","t","i","l","i","t","i","e","s">>, keywords |->
         <<
           <<"e","l","e","c","t","r","i","c","i","t","y">>, <<"w","a","t","e","r">>,
           <<"i","n","t","e","r","n","e","t">>, <<"p","h","o","n","e">>,
           <<"m","o","b","i","l","e">>, <<"w","i","f","i">>, <<"b","i","l","l">>
         >>],
       [name |-> <<"e","n","t","e","r","t","a","i","n","m","e","n","t">>, keywords |->
         <<
           <<"m","o","v","i","e">>, <<"g","a","m","e">>, <<"p","a","r","t","y">>,
           <<"c","i","n","e","m","a">>, <<"s","h","o","w">>,
           <<"c","o","n","c","e","r","t">>,
           <<"e","n","t","e","r","t","a","i","n","m","e","n","t">>
         >>],
       [name |-> <<"r","e","n","t">>, keywords |->
         <<
           <<"r","e","n","t">>, <<"h","o","u","s","e">>,
           <<"a","p","a","r","t","m","e","n","t">>, <<"r","o","o","m">>
         >>],
       [name |-> <<"m","e","d","i","c","a","l">>, keywords |->
         <<
           <<"d","o","c","t","o","r">>, <<"m","e","d","i","c","i","n","e">>,
           <<"h","o","s","p","i","t","a","l">>, <<"m","e","d","i","c","a","l">>,
           <<"h","e","a","l","t","h">>, <<"p","h","a","r","m","a","c","y">>
         >>],
       [name |-> <<"o","t","h","e","r">>, keywords |->
         <<

         >>]
    >>
\* the words of an income query
income_words ==
    <<
       <<"i","n","c","o","m","e">>, <<"s","a","l","a","r","y">>,
       <<"e","a","r","n","i","n","g">>, <<"r","e","c","e","i","v","e","d">>, <<"g","o","t">>
    >>

\* the words of a total / summary query
total_words ==
    <<
       <<"t","o","t","a","l">>, <<"a","l","l">>, <<"o","v","e","r","a","l","l">>,
       <<"e","v","e","r","y","t","h","i","n","g">>, <<"e","n","t","i","r","e">>,
       <<"w","h","o","l","e">>
    >>

\* the words of a question about the amount spent on an item
item_words ==
    <<
       <<"s","p","e","n","d">>, <<"s","p","e","n","t">>, <<"m","u","c","h">>,
       <<"c","o","s","t">>, <<"p","r","i","c","e">>
    >>

\* find_specific_item: the words before an item
item_prepositions ==
    <<
       <<"o","n">>, <<"f","o","r">>, <<"s","p","e","n","d">>, <<"s","p","e","n","t">>
    >>

\* find_specific_item: words that are no items
aggregate_keywords ==
    <<
       <<"t","o","t","a","l">>, <<"a","l","l">>,
       <<"e","v","e","r","y","t","h","i","n","g">>, <<"o","v","e","r","a","l","l">>,
       <<"s","u","m">>, <<"e","n","t","i","r","e">>, <<"w","h","o","l","e">>,
       <<"c","o","m","p","l","e","t","e">>
    >>

\* find_specific_item: items looked for anywhere in the query
common_items ==
    <<
       <<"m","o","m","o">>, <<"b","i","r","y","a","n","i">>, <<"t","e","a">>,
       <<"c","o","f","f","e","e">>, <<"l","u","n","c","h">>, <<"d","i","n","n","e","r">>,
       <<"g","r","o","c","e","r","y">>, <<"p","e","t","r","o","l">>, <<"t","a","x","i">>,
       <<"r","e","n","t">>, <<"c","h","i","c","k","e","n">>, <<"l","a","s","s","i">>,
       <<"d","a","h","i">>, <<"g","h","e","e">>, <<"c","h","i","y","a">>
    >>

\* the words of a general spending query
spending_words ==
    <<
       <<"s","p","e","n","t">>, <<"e","x","p","e","n","s","e">>, <<"m","u","c","h">>
    >>

\* the words of a breakdown query
breakdown_words ==
    <<
       <<"c","a","t","e","g","o","r","y">>, <<"b","r","e","a","k","d","o","w","n">>,
       <<"c","a","t","e","g","o","r","i","e","s">>, <<"w","h","e","r","e">>,
       <<"w","h","a","t">>
    >>

\* the words of a query for recent expenses
recent_words ==
    <<
       <<"r","e","c","e","n","t">>, <<"l","a","s","t">>, <<"l","a","t","e","s","t">>
    >>

\* the words of an average query
average_words ==
    <<
       <<"a","v","e","r","a","g","e">>, <<"d","a","i","l","y">>,
       <<"p","e","r"," ","d","a","y">>
    >>

\* the words of a count query
count_words ==
    <<
       <<"h","o","w"," ","m","a","n","y">>, <<"c","o","u","n","t">>,
       <<"n","u","m","b","e","r">>
    >>

\* the words of a who-paid query
who_paid_words ==
    <<
       <<"w","h","o"," ","p","a","i","d">>, <<"w","h","o"," ","p","a","y","e","d">>,
       <<"p","a","i","d"," ","b","y">>, <<"p","a","y","e","d"," ","b","y">>
    >>

\* the words of a help query
help_words ==
    <<
       <<"h","e","l","p">>, <<"w","h","a","t"," ","c","a","n">>,
       <<"o","p","t","i","o","n","s">>
    >>

\* the words of a balance query
balance_words ==
    <<
       <<"b","a","l","a","n","c","e">>, <<"n","e","t">>, <<"l","e","f","t">>,
       <<"r","e","m","a","i","n","i","n","g">>, <<"s","a","v","e">>, <<"s","a","v","e","d">>
    >>

-----------------------------------------------------------------------------
(* Inputs of the parser.                                                   *)

MaxTokens == 3

Vocab ==
    {w_500, w_0, w_on, w_for, w_the, w_biryani, w_grocery, w_salary, w_Salary, w_got,
     w_received, w_today, w_comma}

\* texts of at most MaxSegments segments, each a segment that a rule matches
\* or one that no rule matches, with "," or "and" between them
MaxSegments == 3

SegmentPool ==
    {<<w_500, w_biryani>>, <<w_got, w_salary, w_500>>, <<w_the>>, <<w_today>>}

RECURSIVE SegmentTextsOf(_)
SegmentTextsOf(n) ==
    IF n = 1 THEN SegmentPool
    ELSE {t \o <<sep>> \o s : t \in SegmentTextsOf(n - 1), sep \in {w_comma, w_and},
                               s \in SegmentPool}

SegmentTexts == UNION {SegmentTextsOf(n) : n \in 1..MaxSegments}

\* every text of at most MaxTokens tokens of the vocabulary, the examples and
\* the texts of several segments
w_Rs500 == <<"R","s","5","0","0">>

w_Rs_500 == <<"R","s",".","5","0","0">>

\* texts with a currency-marked amount
CurrencyTexts ==
    { <<w_Rs500>>, <<w_Rs_500>>, <<w_Rs500, w_tea>>, <<w_tea, w_Rs_500>>, <<w_Rs, w_500, w_tea>>,
      <<w_tea, w_Rs, w_500>>, <<w_Rs500, w_on, w_the, w_tea>>, <<w_500, w_Rs500>>,
      <<w_Rs, w_tea>>, <<w_150, w_spend, w_on, w_the, w_momo>>, <<w_500, w_for, w_the, w_petrol>>,
      <<w_500, w_for, w_petrol, w_comma, w_150, w_spend, w_on, w_momo, w_comma, w_Rs500, w_tea>> }

ParserInputs == (UNION {[1..n -> Vocab] : n \in 0..MaxTokens}) \cup Examples \cup SegmentTexts
        \cup CurrencyTexts

-----------------------------------------------------------------------------
(* The external capability, as NLPService sees it.                         *)

\* a value of the "expenses" key of the capability's JSON answer
Absent == [type |-> "absent", number |-> 0, list |-> <<>>]

Null == [type |-> "null", number |-> 0, list |-> <<>>]

Number(n) == [type |-> "number", number |-> n, list |-> <<>>]

List(l) == [type |-> "list", number |-> 0, list |-> l]

\* elements of an "expenses" list: a transaction, a dict whose amount is text,
\* and a value that is no dict
AiTransaction == [shape |-> "transaction", amount |-> 100]

AiTextAmount == [shape |-> "text_amount", amount |-> 0]

AiNotDict == [shape |-> "not_dict", amount |-> 0]

AiExpenses ==
    {Absent, Null, Number(0), Number(5), List(<<>>), List(<<AiTransaction>>),
     List(<<AiTransaction, AiTransaction>>), List(<<AiTextAmount>>),
     List(<<AiTransaction, AiNotDict>>)}

\* what one call of generate_content can do: raise, answer without text, answer
\* text without a JSON object, with an unparseable one, or with a JSON object
Failure(kind) == [kind |-> kind, expenses |-> Absent, reply |-> "absent"]

ParseResponses ==
    {Failure(k) : k \in {"raise", "empty", "nojson", "badjson"}}
    \cup [kind : {"object"}, expenses : AiExpenses, reply : {"absent", "given"}]

\* Python truth value, len() and sum() of an "expenses" value
Truthy(e) == (e.type = "number" /\ e.number # 0) \/ (e.type = "list" /\ e.list # <<>>)

HasLen(e) == e.type = "list"

Summable(e) == \A i \in DOMAIN e.list : e.list[i].shape = "transaction"

\* NLPService.get_gemini_response: the text of the answer, or nothing
get_gemini_response(r) == IF r.kind \in {"raise", "empty"} THEN None ELSE r.kind

NoData == [some |-> FALSE, expenses |-> Absent, reply |-> "absent"]

\* NLPService._ai_enhanced_parse after the call: the parsed data, or nothing
ai_enhanced_parse(r) ==
    IF get_gemini_response(r) = None THEN NoData
    ELSE IF r.kind # "object" THEN NoData
    ELSE IF r.expenses.type = "absent" THEN NoData
    ELSE IF r.reply = "absent"
         THEN IF HasLen(r.expenses) /\ Summable(r.expenses)
              THEN [some |-> TRUE, expenses |-> r.expenses, reply |-> "summary"]
              ELSE NoData
         ELSE [some |-> TRUE, expenses |-> r.expenses, reply |-> r.reply]

-----------------------------------------------------------------------------
(* NLPService.parse_expense.                                               *)

\* no analysis was made
NoAnalysis == [made |-> FALSE]

NoResult == [expenses |-> <<>>, reply |-> "none", source |-> "none"]

NoResponse == Failure("none")

\* the except clause of parse_expense
parse_error == [expenses |-> <<>>, reply |-> "error", source |-> "error"]

\* the last-resort extraction when it asks for an item, as the first-integer
\* fallback of the cascade does
simple_extract_needs_item(t) ==
    LET number == FirstNumber(Join(t))
        item   == WithoutDigits(t)
    IN  IF number # <<>> /\ item # <<>>
        THEN Expense(number, item, <<>>, "simple_extract")
        ELSE NoMatch

\* NLPService._simple_extract
simple_extract(t) ==
    LET number == FirstNumber(Join(t))
        item   == WithoutDigits(t)
    IN  IF number # <<>>
        THEN Expense(number, IF item = <<>> THEN <<w_expense>> ELSE item, <<>>,
                     "simple_extract")
        ELSE NoMatch

\* a parse request arrives
ReceiveParse(texts) ==
    /\ pc = "idle"
    /\ \E t \in texts : text' = t
    /\ pc' = "parse_start"
    /\ UNCHANGED <<result, table, analysis, cfg, cap, trace, inflight, now, otp_store, time>>

\* parse_expense up to the call of the capability
ParseStart ==
    /\ pc = "parse_start"
    /\ IF cfg.gemini_available
       THEN /\ pc' = "ai_wait"
            /\ inflight' = inflight + 1
            /\ trace' = Append(trace, "capability")
       ELSE /\ pc' = "rule_based"
            /\ UNCHANGED <<inflight, trace>>
    /\ UNCHANGED <<text, result, table, analysis, cfg, cap, now, otp_store, time>>

\* after_ai when the rule-based parser runs whatever the capability produced
after_ai_falls_back(ai_result) == [pc |-> "rule_based", result |-> NoResult]

\* after_ai when a failed call of the capability is made again
after_ai_retries(ai_result) ==
    IF ai_result.some /\ Truthy(ai_result.expenses)
    THEN IF HasLen(ai_result.expenses)
         THEN [pc |-> "done",
               result |-> [expenses |-> ai_result.expenses, reply |-> ai_result.reply,
                           source |-> "capability"]]
         ELSE [pc |-> "done", result |-> parse_error]
    ELSE [pc |-> "parse_start", result |-> NoResult]

\* what parse_expense does with the parsed data of the capability
after_ai(ai_result) ==
    IF ai_result.some /\ Truthy(ai_result.expenses)
    THEN IF HasLen(ai_result.expenses)
         THEN [pc |-> "done",
               result |-> [expenses |-> ai_result.expenses, reply |-> ai_result.reply,
                           source |-> "capability"]]
         ELSE [pc |-> "done", result |-> parse_error]
    ELSE [pc |-> "rule_based", result |-> NoResult]

\* the capability's call ends and parse_expense uses its answer
AiReturn ==
    /\ pc = "ai_wait"
    /\ \E r \in ParseResponses :
         /\ cap' = r
         /\ pc' = after_ai(ai_enhanced_parse(r)).pc
         /\ result' = after_ai(ai_enhanced_parse(r)).result
    /\ inflight' = inflight - 1
    /\ UNCHANGED <<text, table, analysis, cfg, trace, now, otp_store, time>>

\* the rule-based parser
RuleBased ==
    /\ pc = "rule_based"
    /\ LET r == parse(text)
       IN  /\ result' = [expenses |-> r.expenses, reply |-> r.reply, source |-> "rule_based"]
           /\ pc' = IF r.expenses = <<>> THEN "simple_extract" ELSE "done"
    /\ trace' = Append(trace, "rule_based")
    /\ UNCHANGED <<text, table, analysis, cfg, cap, inflight, now, otp_store, time>>

\* the last-resort extraction
SimpleExtract ==
    /\ pc = "simple_extract"
    /\ LET s == simple_extract(text)
       IN  result' = IF s # NoMatch
                     THEN [expenses |-> s, reply |-> "added", source |-> "simple_extract"]
                     ELSE result
    /\ pc' = "done"
    /\ trace' = Append(trace, "simple_extract")
    /\ UNCHANGED <<text, table, analysis, cfg, cap, inflight, now, otp_store, time>>

-----------------------------------------------------------------------------
(* The parser alone: parse_expense of a service without the capability.    *)

ParserInit ==
    /\ pc = "idle"
    /\ text = <<>>
    /\ result = NoResult
    /\ table = <<>>
    /\ analysis = NoAnalysis
    /\ cfg = [gemini_available |-> FALSE, rag |-> "none"]
    /\ cap = NoResponse
    /\ trace = <<>>
    /\ otp_store = <<>>
    /\ time = 0
    /\ inflight = 0
    /\ now = ReferenceNow

ParserNext == ReceiveParse(ParserInputs) \/ ParseStart \/ RuleBased \/ SimpleExtract

ParserSpec == ParserInit /\ [][ParserNext]_vars


-----------------------------------------------------------------------------
(* Properties of the parser (ParserSpec).                                  *)

\* the transactions the PatternCascade produced for the request
CascadeExpenses == IF result.source = "rule_based" THEN Range(result.expenses) ELSE {}

IncomeRules == {"salary", "salary2", "income"}

\* C1: sign invariant of the PatternCascade: a transaction of category Income or
\* made by the repayment-received rule has amount < 0, and a transaction made by
\* a loan-given rule or an expense rule (every other rule) has amount > 0.
C1_SignInvariant ==
    \A tx \in CascadeExpenses :
        /\ (tx.category = c_Income \/ tx.rule = "repayment") => tx.amount < 0
        /\ (tx.rule \notin IncomeRules \cup {"repayment"}) => tx.amount > 0

\* a segment "<amount> on <item>" or "<amount> for <item>"
IsAmountOnItem(t) == Len(t) >= 3 /\ IsNumber(t[1]) /\ t[2] \in {w_on, w_for}

\* the item text of such a segment, without the preposition
ItemAlone(t) == Lower(clean_item_name(AfterThe(SubSeq(t, 3, Len(t)), FALSE)))

c_Food == <<"F","o","o","d">>

c_Groceries == <<"G","r","o","c","e","r","i","e","s">>

Scenario_biryani_grocery == <<w_500, w_on, w_biryani, w_comma, w_400, w_on, w_grocery>>

\* C9: without the capability a segment "<amount> on|for <item>" yields an
\* expense with that amount, the item text alone as item and the Categorizer's
\* category of that item; "500 on biryani, 400 on grocery" yields exactly
\* {500, Food, "biryani"} and {400, Groceries, "grocery"}, in that order.
C9_AmountOnItem ==
    (pc = "done" /\ ~cfg.gemini_available) =>
        /\ \A seg \in Range(Split(text, <<>>)) :
               IsAmountOnItem(seg) =>
                   \E tx \in Range(result.expenses) :
                       /\ tx.amount = ToInt(seg[1])
                       /\ tx.item = ItemAlone(seg)
                       /\ tx.category = categorize(ItemAlone(seg))
        /\ text = Scenario_biryani_grocery =>
               /\ Len(result.expenses) = 2
               /\ result.expenses[1].amount = 500
               /\ result.expenses[1].category = c_Food
               /\ result.expenses[1].item = w_biryani
               /\ result.expenses[2].amount = 400
               /\ result.expenses[2].category = c_Groceries
               /\ result.expenses[2].item = w_grocery

\* the segments "got|received salary [today] N", "salary N received|got" and
\* "<income noun> N", with the income noun each names
IncomeNoun(t) ==
    IF /\ Len(t) \in {3, 4}
       /\ IsOneOf(t[1], {w_got, w_received})
       /\ Is(t[2], w_salary)
       /\ (Len(t) = 4 => Is(t[3], w_today))
       /\ IsNumber(t[Len(t)])
    THEN <<t[2]>>
    ELSE IF Len(t) = 3 /\ Is(t[1], w_salary) /\ IsNumber(t[2])
            /\ IsOneOf(t[3], {w_received, w_got})
    THEN <<t[1]>>
    ELSE IF Len(t) = 2 /\ IsOneOf(t[1], income_nouns) /\ IsNumber(t[2])
    THEN <<t[1]>>
    ELSE <<>>

IncomeAmount(t) == IF Len(t) = 3 /\ IsNumber(t[2]) THEN ToInt(t[2]) ELSE ToInt(t[Len(t)])

\* C10: without the capability every segment "got|received salary [today] N",
\* "salary N received|got" or "<income noun> N" yields a transaction with
\* amount -N, category Income and the lower-cased income noun as item; a text
\* that is one such segment yields exactly that transaction.
C10_IncomeSegments ==
    (pc = "done" /\ ~cfg.gemini_available) =>
        LET segs == Split(text, <<>>)
        IN  /\ \A seg \in Range(segs) :
                   IncomeNoun(seg) # <<>> =>
                       \E tx \in Range(result.expenses) :
                           /\ tx.amount = -IncomeAmount(seg)
                           /\ tx.category = c_Income
                           /\ tx.item = Lower(IncomeNoun(seg)[1])
            /\ (Len(segs) = 1 /\ IncomeNoun(segs[1]) # <<>>) => Len(result.expenses) = 1

\* C10 witness: "got salary 50000" was parsed into amount -50000, Income, "salary"
C10_Witness ==
    /\ pc = "done"
    /\ text = <<w_got, w_salary, w_50000>>
    /\ Len(result.expenses) = 1
    /\ result.expenses[1].amount = -50000
    /\ result.expenses[1].category = c_Income
    /\ result.expenses[1].item = w_salary


-----------------------------------------------------------------------------
(* ExpenseAnalyzer.analyze_expenses.                                       *)
(* A row of the transaction list is a record; its category and its paid_by *)
(* are <<>> when the field is null and <<value>> otherwise.  Amounts are   *)
(* integers; dates are not modelled.                                       *)

Txn(amount, category) ==
    [amount |-> amount, category |-> <<category>>, item |-> w_item, paid_by |-> <<>>]

\* exp.get('category', '').lower() raises on a null category
lower_raises(exp) == exp.category = <<>>

\* the condition of the expense filter
is_expense(exp) == exp.amount > 0 /\ Lower(exp.category[1]) # w_income

\* is_income when only the sign of the amount is looked at
is_income_by_sign(exp) == exp.amount < 0

\* the condition of the income filter
is_income(exp) == exp.amount < 0 \/ Lower(exp.category[1]) = w_income

\* the two filters evaluate the category of a row unless the amount decides
analyze_raises(data) ==
    \E i \in DOMAIN data :
        /\ lower_raises(data[i])
        /\ (data[i].amount > 0 \/ ~(data[i].amount < 0))

abs(n) == IF n < 0 THEN -n ELSE n

RECURSIVE sum(_)
sum(amounts) == IF amounts = <<>> THEN 0 ELSE Head(amounts) + sum(Tail(amounts))

Amounts(txns) == [i \in DOMAIN txns |-> txns[i].amount]

\* dict[key] = dict.get(key, 0) + value, on a dict kept
\* as the sequence of its (key, value) pairs in insertion order
dict_add(dict, key, value) ==
    IF \E i \in DOMAIN dict : dict[i][1] = key
    THEN [i \in DOMAIN dict |->
             IF dict[i][1] = key
             THEN <<key, dict[i][2] + value>>
             ELSE dict[i]]
    ELSE Append(dict, <<key, value>>)

RECURSIVE category_breakdown(_, _)
category_breakdown(expenses, dict) ==
    IF expenses = <<>> THEN dict
    ELSE category_breakdown(Tail(expenses),
             dict_add(dict, Lower(Head(expenses).category[1]), Head(expenses).amount))

\* insert_desc when an item is put before the items of equal value
insert_desc_before_equal(sorted, item) ==
    LET before == {i \in DOMAIN sorted : sorted[i][2] > item[2]}
        k == Cardinality(before)
    IN  SubSeq(sorted, 1, k) \o <<item>> \o SubSeq(sorted, k + 1, Len(sorted))

\* one step of sorted(..., key=value, reverse=True): the sort is stable, an item
\* goes after the items of greater or equal value
insert_desc(sorted, item) ==
    LET before == {i \in DOMAIN sorted : sorted[i][2] >= item[2]}
        k == Cardinality(before)
    IN  SubSeq(sorted, 1, k) \o <<item>> \o SubSeq(sorted, k + 1, Len(sorted))

RECURSIVE sorted_desc(_, _)
sorted_desc(items, sorted) ==
    IF items = <<>> THEN sorted
    ELSE sorted_desc(Tail(items), insert_desc(sorted, Head(items)))

\* s[:n]
Take(s, n) == SubSeq(s, 1, IF Len(s) < n THEN Len(s) ELSE n)

TopN == 5

\* days_count: the number of distinct date parts of the rows, 1 if there is none
days_count(expenses_data) ==
    LET dates == {date_part(date_val(expenses_data[i])[1]) :
                     i \in {j \in DOMAIN expenses_data : date_val(expenses_data[j]) # <<>>}}
    IN  IF dates = {} THEN 1 ELSE Cardinality(dates)

\* the result for an empty list has no 'days_tracked' (the empty tuple)
analyze_expenses(expenses_data) ==
    IF expenses_data = <<>>
    THEN [made |-> TRUE, total |-> 0, count |-> 0, categories |-> <<>>,
          recent_expenses |-> <<>>, top_categories |-> <<>>, total_income |-> 0,
          income_count |-> 0, net_balance |-> 0, days_tracked |-> <<>>]
    ELSE LET expenses == SelectSeq(expenses_data, is_expense)
             income_transactions == SelectSeq(expenses_data, is_income)
             total_expenses == sum(Amounts(expenses))
             total_income == sum([i \in DOMAIN income_transactions |->
                                     abs(income_transactions[i].amount)])
             breakdown == category_breakdown(expenses, <<>>)
         IN  [made |-> TRUE, total |-> total_expenses, count |-> Len(expenses),
              categories |-> breakdown,
              recent_expenses |-> Take(expenses, 5),
              top_categories |-> Take(sorted_desc(breakdown, <<>>), TopN),
              total_income |-> total_income,
              income_count |-> Len(income_transactions),
              net_balance |-> total_income - total_expenses,
              days_tracked |-> <<days_count(expenses_data)>>]


-----------------------------------------------------------------------------
(* NLPService.chat_about_expenses.                                         *)

\* self.rag_service and self.rag_service.gemini_available
rag_available(c) == c.rag = "available"

\* legacy_condition when the retrieval-augmented service is not looked at
legacy_condition_gemini_only(c) == c.gemini_available

\* the condition under which the legacy direct prompt is tried
legacy_condition(c) == c.gemini_available /\ ~rag_available(c)

\* RAGService._prepare_expense_context raises on a null category and on a loan
\* whose paid_by is null
prepare_raises(data) ==
    \E i \in DOMAIN data :
        \/ data[i].category = <<>>
        \/ (Lower(data[i].category[1]) = w_loan /\ data[i].paid_by = <<>>)

\* what one call of generate_content can do for a question: raise, answer
\* without text, answer blank text, answer text
ChatResponses == {Failure(k) : k \in {"raise", "empty", "blank", "text"}}

\* response.text.strip() of an answer with text, and nothing otherwise
response_text(r) == IF r.kind \in {"raise", "empty"} THEN None
                    ELSE IF r.kind = "blank" THEN "" ELSE r.kind

\* Python truth value of an optional string
HasText(s) == s # None /\ s # ""

ChatReply(reply, source) == [expenses |-> <<>>, reply |-> reply, source |-> source]

\* the except clause of chat_about_expenses
chat_error == ChatReply("chat_error", "error")

\* a chat request arrives
ReceiveChat(queries, tables) ==
    /\ pc = "idle"
    /\ \E q \in queries : text' = q
    /\ \E d \in tables : table' = d
    /\ pc' = "chat_start"
    /\ UNCHANGED <<result, analysis, cfg, cap, trace, inflight, now, otp_store, time>>

\* chat_about_expenses without its test of an empty table
ChatStartWithoutTableTest ==
    /\ pc = "chat_start"
    /\ IF rag_available(cfg)
       THEN IF prepare_raises(table)
            THEN /\ pc' = "analyze"
                 /\ trace' = Append(trace, "rag")
                 /\ UNCHANGED <<result, inflight>>
            ELSE /\ pc' = "rag_wait"
                 /\ trace' = trace \o <<"rag", "rag_call">>
                 /\ inflight' = inflight + 1
                 /\ UNCHANGED result
       ELSE /\ pc' = "analyze"
            /\ UNCHANGED <<result, trace, inflight>>
    /\ UNCHANGED <<text, table, analysis, cfg, cap, now, otp_store, time>>

\* chat_about_expenses up to the call of the retrieval-augmented prompt
ChatStart ==
    /\ pc = "chat_start"
    /\ IF table = <<>>
       THEN /\ result' = ChatReply("no_expenses_yet", "empty_table")
            /\ pc' = "done"
            /\ UNCHANGED <<trace, inflight>>
       ELSE IF rag_available(cfg)
       THEN IF prepare_raises(table)
            THEN /\ pc' = "analyze"
                 /\ trace' = Append(trace, "rag")
                 /\ UNCHANGED <<result, inflight>>
            ELSE /\ pc' = "rag_wait"
                 /\ trace' = trace \o <<"rag", "rag_call">>
                 /\ inflight' = inflight + 1
                 /\ UNCHANGED result
       ELSE /\ pc' = "analyze"
            /\ UNCHANGED <<result, trace, inflight>>
    /\ UNCHANGED <<text, table, analysis, cfg, cap, now, otp_store, time>>

\* what chat_about_expenses does with the answer of the retrieval-augmented prompt
after_rag(rag_response) ==
    IF HasText(rag_response)
    THEN [pc |-> "done", result |-> ChatReply("rag_text", "rag")]
    ELSE [pc |-> "analyze", result |-> NoResult]

\* the retrieval-augmented call ends
RagReturn ==
    /\ pc = "rag_wait"
    /\ \E r \in ChatResponses :
         /\ cap' = r
         /\ pc' = after_rag(response_text(r)).pc
         /\ result' = after_rag(response_text(r)).result
    /\ inflight' = inflight - 1
    /\ UNCHANGED <<text, table, analysis, cfg, trace, now, otp_store, time>>

\* analyze_expenses, then the legacy direct prompt if its condition holds
Analyze ==
    /\ pc = "analyze"
    /\ IF analyze_raises(table)
       THEN /\ result' = chat_error
            /\ pc' = "done"
            /\ UNCHANGED <<analysis, inflight>>
            /\ trace' = Append(trace, "analyze")
       ELSE /\ analysis' = analyze_expenses(table)
            /\ UNCHANGED result
            /\ IF legacy_condition(cfg)
               THEN /\ pc' = "legacy_wait"
                    /\ trace' = trace \o <<"analyze", "legacy", "legacy_call">>
                    /\ inflight' = inflight + 1
               ELSE /\ pc' = "router"
                    /\ trace' = Append(trace, "analyze")
                    /\ UNCHANGED inflight
    /\ UNCHANGED <<text, table, cfg, cap, now, otp_store, time>>

\* what chat_about_expenses does with the answer of the legacy prompt
after_legacy(gemini_response) ==
    IF HasText(gemini_response)
    THEN [pc |-> "done", result |-> ChatReply("legacy_text", "legacy")]
    ELSE [pc |-> "router", result |-> NoResult]

\* the legacy call ends
LegacyReturn ==
    /\ pc = "legacy_wait"
    /\ \E r \in ChatResponses :
         /\ cap' = r
         /\ pc' = after_legacy(response_text(r)).pc
         /\ result' = after_legacy(response_text(r)).result
    /\ inflight' = inflight - 1
    /\ UNCHANGED <<text, table, analysis, cfg, trace, now, otp_store, time>>

\* the rule-based answer of the analyzer (process_query)
Router ==
    /\ pc = "router"
    /\ result' = ChatReply("router_reply", "router")
    /\ pc' = "done"
    /\ trace' = Append(trace, "router")
    /\ UNCHANGED <<text, table, analysis, cfg, cap, inflight, now, otp_store, time>>

-----------------------------------------------------------------------------
(* The service: one request, parse or chat, under every configuration and  *)
(* every behaviour of the capability.                                      *)

Configs == [gemini_available : BOOLEAN, rag : {"none", "unavailable", "available"}]

RequestTexts ==
    { <<>>, <<w_tea>>, <<w_500>>, <<w_500, w_on, w_biryani>>,
      <<w_got, w_salary, w_50000>>, <<w_500, w_salary>>, Scenario_biryani_grocery }

ChatQueries == { <<>>, <<w_total>>, <<w_food>> }

LoanRow(amount, payer) ==
    [amount |-> amount, category |-> <<c_Loan>>, item |-> w_loan, paid_by |-> payer]

NullCategoryRow(amount) ==
    [amount |-> amount, category |-> <<>>, item |-> w_item, paid_by |-> <<>>]

ChatTables ==
    { <<>>,
      <<Txn(100, c_Food)>>,
      <<Txn(100, c_Food), Txn(-50, c_Income)>>,
      <<LoanRow(100, <<w_sonu>>)>>,
      <<LoanRow(100, <<>>)>>,
      <<Txn(100, c_Food), NullCategoryRow(0)>>,
      <<NullCategoryRow(-50)>> }

Init ==
    /\ pc = "idle"
    /\ text = <<>>
    /\ result = NoResult
    /\ table = <<>>
    /\ analysis = NoAnalysis
    /\ cfg \in Configs
    /\ cap = NoResponse
    /\ trace = <<>>
    /\ otp_store = <<>>
    /\ time = 0
    /\ inflight = 0
    /\ now = ReferenceNow

Next ==
    \/ ReceiveParse(RequestTexts)
    \/ ReceiveChat(ChatQueries, ChatTables)
    \/ ParseStart
    \/ AiReturn
    \/ RuleBased
    \/ SimpleExtract
    \/ ChatStart
    \/ RagReturn
    \/ Analyze
    \/ LegacyReturn
    \/ Router

Spec == Init /\ [][Next]_vars

\* The service takes its own steps; nothing makes a call of the capability end.
\* The fairness of RuleBased and SimpleExtract is written on pc: each is enabled
\* exactly at its position and leaves it, so WF_vars of it is []<>(pc is not
\* its position).
FairSpec ==
    /\ Init /\ [][Next]_vars
    /\ WF_vars(ParseStart \/ ChatStart \/ Analyze \/ Router)
    /\ []<>(pc \notin {"rule_based", "simple_extract"})


-----------------------------------------------------------------------------
(* The aggregator alone: analyze_expenses applied to a transaction list.   *)

MaxTxns == 3

AnalyzerAmounts == {-50, 0, 50, 100}

AnalyzerCategories == {w_food, c_Food, c_Income, w_rent}

\* every list of at most MaxTxns transactions over these amounts and categories
RichTables ==
    UNION {[1..n -> {Txn(a, c) : a \in AnalyzerAmounts, c \in AnalyzerCategories}] :
              n \in 0..MaxTxns}

WideCategories == <<w_food, w_rent, w_transport, w_shopping, w_medical, w_other>>

\* lists of expenses of more categories than top_categories holds
WideTables ==
    {[i \in DOMAIN WideCategories |-> Txn(a[i], WideCategories[i])] :
        a \in [DOMAIN WideCategories -> {50, 100}]}

AnalyzerInputs == RichTables \cup WideTables \cup {<<NullCategoryRow(0)>>}

\* a call of analyze_expenses
AnalyzeExpenses ==
    /\ pc = "analyzer"
    /\ IF analyze_raises(table)
       THEN /\ pc' = "raised"
            /\ UNCHANGED analysis
       ELSE /\ pc' = "analyzed"
            /\ analysis' = analyze_expenses(table)
    /\ UNCHANGED <<text, result, table, cfg, cap, trace, inflight, now, otp_store, time>>

AnalyzerInit ==
    /\ pc = "analyzer"
    /\ text = <<>>
    /\ result = NoResult
    /\ table \in AnalyzerInputs
    /\ analysis = NoAnalysis
    /\ cfg = [gemini_available |-> FALSE, rag |-> "none"]
    /\ cap = NoResponse
    /\ trace = <<>>
    /\ otp_store = <<>>
    /\ time = 0
    /\ inflight = 0
    /\ now = ReferenceNow

AnalyzerNext == AnalyzeExpenses

AnalyzerSpec == AnalyzerInit /\ [][AnalyzerNext]_vars

\* the positions of the expense transactions and of the income transactions
ExpenseRows ==
    {i \in DOMAIN table : table[i].amount > 0 /\ Lower(table[i].category[1]) # w_income}

IncomeRows ==
    {i \in DOMAIN table : table[i].amount < 0 \/ Lower(table[i].category[1]) = w_income}

RECURSIVE SumOfAmounts(_)
SumOfAmounts(rows) ==
    IF rows = {} THEN 0
    ELSE LET i == CHOOSE j \in rows : TRUE
         IN  table[i].amount + SumOfAmounts(rows \ {i})

RECURSIVE SumOfAbsAmounts(_)
SumOfAbsAmounts(rows) ==
    IF rows = {} THEN 0
    ELSE LET i == CHOOSE j \in rows : TRUE
         IN  (IF table[i].amount < 0 THEN -table[i].amount ELSE table[i].amount)
             + SumOfAbsAmounts(rows \ {i})

\* C7: analyze_expenses returns total equal to the sum of the amounts of the
\* expense transactions (amount > 0 and category not "income", whatever its
\* case), total_income equal to the sum of the absolute amounts of the income
\* transactions (amount < 0 or category "income"), and net_balance equal to
\* total_income - total.
C7_AggregatorTotals ==
    analysis.made =>
        /\ analysis.total = SumOfAmounts(ExpenseRows)
        /\ analysis.total_income = SumOfAbsAmounts(IncomeRows)
        /\ analysis.net_balance = analysis.total_income - analysis.total

\* C7 witness: a list with an expense, an income of positive amount and an
\* income of negative amount was analyzed
C7_Witness ==
    /\ pc = "analyzed"
    /\ table = <<Txn(100, w_food), Txn(50, c_Income), Txn(-50, w_food)>>
    /\ analysis.total = 100
    /\ analysis.total_income = 100
    /\ analysis.net_balance = 0

\* the categories of the expense transactions, lower-cased, their sums, and the
\* position of the first expense transaction of each
ExpenseCategories == {Lower(table[i].category[1]) : i \in ExpenseRows}

CategorySum(c) == SumOfAmounts({i \in ExpenseRows : Lower(table[i].category[1]) = c})

FirstSeen(c) ==
    CHOOSE i \in ExpenseRows :
        /\ Lower(table[i].category[1]) = c
        /\ \A j \in ExpenseRows : Lower(table[j].category[1]) = c => i <= j

\* pair p comes before pair q in the order of top_categories
Precedes(p, q) == p[2] > q[2] \/ (p[2] = q[2] /\ FirstSeen(p[1]) < FirstSeen(q[1]))

-----------------------------------------------------------------------------
(* Properties of the service (Spec, FairSpec).                             *)

Steps == Range(trace)

Count(step) == Cardinality({i \in DOMAIN trace : trace[i] = step})

\* step a was taken before step b
Before(a, b) == \E i, j \in DOMAIN trace : i < j /\ trace[i] = a /\ trace[j] = b

\* the capability answered the parse request with at least one transaction
CapabilityGaveTransactions ==
    /\ "capability" \in Steps
    /\ cap.kind = "object"
    /\ cap.expenses.type = "list"
    /\ cap.expenses.list # <<>>
    /\ (cap.reply = "given" \/ \A i \in DOMAIN cap.expenses.list :
                                  cap.expenses.list[i].shape = "transaction")

\* C2: parse_expense tries the capability, then the TransactionExtractor, then
\* the last-resort extraction, in that order.  A capability result with at
\* least one transaction is returned as it is and no later strategy runs; the
\* TransactionExtractor runs only if the capability is absent, errored or gave
\* no transactions; the last-resort extraction runs only if the
\* TransactionExtractor gave no transaction either.
C2_ParseFallbackOrder ==
    /\ ~Before("rule_based", "capability")
    /\ ~Before("simple_extract", "rule_based")
    /\ ~Before("simple_extract", "capability")
    /\ (pc = "done" /\ CapabilityGaveTransactions) =>
           /\ trace = <<"capability">>
           /\ result.source = "capability"
           /\ result.expenses = cap.expenses
    /\ "rule_based" \in Steps =>
           \/ ~cfg.gemini_available
           \/ ("capability" \in Steps /\ cap # NoResponse /\ ~CapabilityGaveTransactions)
    /\ "simple_extract" \in Steps =>
           /\ "rule_based" \in Steps
           /\ parse(text).expenses = <<>>

\* C2 witness: the capability gave no transaction, the rule-based parser gave
\* none either, and the last-resort extraction answered
C2_Witness ==
    /\ pc = "done"
    /\ trace = <<"capability", "rule_based", "simple_extract">>
    /\ cap.kind = "object"
    /\ result.source = "simple_extract"
    /\ Len(result.expenses) = 1

\* the request is a question about a table that has rows and can be analyzed
ChatOfTable == table # <<>> /\ ~analyze_raises(table)

C4_NoStepRaises ==
    pc = "done" =>
        /\ result.reply # "none"
        /\ ("capability" \in Steps /\ result.source # "capability") => "rule_based" \in Steps
        /\ ("rag" \in Steps /\ result.source # "rag") => "analyze" \in Steps
        /\ ("legacy" \in Steps /\ result.source # "legacy") => "router" \in Steps

CapabilityCalls == {"capability", "rag_call", "legacy_call"}

\* C5: within one request the calls of the capability are sequential (never two
\* in flight) and a failed call is not made again: a parse request makes at
\* most one call, a chat request at most two, and no prompt is submitted twice.
C5_SequentialNoRetry ==
    /\ inflight \in {0, 1}
    /\ inflight = 1 <=> pc \in {"ai_wait", "rag_wait", "legacy_wait"}
    /\ \A c \in CapabilityCalls : Count(c) <= 1
    /\ Count("capability") + Count("rag_call") + Count("legacy_call")
           <= (IF "capability" \in Steps THEN 1 ELSE 2)

\* C5 witness: the call of a parse request raised and the request went on to
\* the rule-based parser with that one call made
C5_Witness ==
    /\ pc = "done"
    /\ cap.kind = "raise"
    /\ trace[1] = "capability"
    /\ "rule_based" \in Steps
    /\ Count("capability") = 1
    /\ inflight = 0

\* C6: every parse or chat request eventually returns a reply, also when a call
\* of the capability never completes (each call is bounded by a deadline whose
\* expiry advances the request to the next fallback step).
C6_EventuallyReplies == (pc # "idle") ~> (pc = "done")

-----------------------------------------------------------------------------
(* The loan ledger of RAGService._prepare_expense_context.                 *)

\* str.strip(): the text without the blanks at its ends
RECURSIVE strip(_)
strip(s) ==
    IF Len(s) = 0 THEN s
    ELSE IF s[1] = " " THEN strip(Tail(s))
    ELSE IF s[Len(s)] = " " THEN strip(SubSeq(s, 1, Len(s) - 1))
    ELSE s

\* the rows of the "loans" list
loans_of(expenses_data) ==
    SelectSeq(expenses_data, LAMBDA e : Lower(e.category[1]) = w_loan)

\* person.replace('s', '').replace('n', '')[:3]
person_clean(person) == Take(Replace(Replace(person, <<"s">>, <<>>), <<"n">>, <<>>), 3)

\* every spelling of a name taken for a person of its own
person_itself(person_loans, person) == person

\* the key of person_loans that stands for the person, or the person itself
person_normalized(person_loans, person) ==
    IF \E i \in DOMAIN person_loans :
           person_clean(person_loans[i].key) = person_clean(person)
    THEN person_loans[CHOOSE i \in DOMAIN person_loans :
             /\ person_clean(person_loans[i].key) = person_clean(person)
             /\ \A j \in 1..(i - 1) :
                    person_clean(person_loans[j].key) # person_clean(person)].key
    ELSE person

\* the amount added to 'taken' without its absolute value
add_amount_signed(entry, amt) ==
    IF amt > 0
    THEN [entry EXCEPT !.given = @ + amt]
    ELSE [entry EXCEPT !.taken = @ + amt]

\* if amt > 0: given += amt, else: taken += abs(amt)
add_amount(entry, amt) ==
    IF amt > 0
    THEN [entry EXCEPT !.given = @ + amt]
    ELSE [entry EXCEPT !.taken = @ + abs(amt)]

\* one turn of the loop over the loans; person_loans is kept as the sequence
\* of its entries in insertion order
add_loan(person_loans, loan) ==
    LET person == strip(Lower(loan.paid_by[1]))
        key    == person_normalized(person_loans, person)
    IN  IF person = <<>> THEN person_loans
        ELSE IF \E i \in DOMAIN person_loans : person_loans[i].key = key
        THEN [i \in DOMAIN person_loans |->
                 IF person_loans[i].key = key
                 THEN add_amount([person_loans[i] EXCEPT !.original_name = person],
                                 loan.amount)
                 ELSE person_loans[i]]
        ELSE Append(person_loans,
                    add_amount([key |-> key, given |-> 0, taken |-> 0,
                                original_name |-> person], loan.amount))

RECURSIVE build_person_loans(_, _)
build_person_loans(person_loans, loans) ==
    IF loans = <<>> THEN person_loans
    ELSE build_person_loans(add_loan(person_loans, Head(loans)), Tail(loans))

\* the line of the context written for one entry of person_loans
loan_line(entry) ==
    IF entry.taken > entry.given
    THEN [person |-> Title(entry.original_name), key |-> entry.key,
          given |-> entry.given, taken |-> entry.taken,
          direction |-> "YOU OWE", net_owed |-> entry.taken - entry.given]
    ELSE IF entry.given > entry.taken
    THEN [person |-> Title(entry.original_name), key |-> entry.key,
          given |-> entry.given, taken |-> entry.taken,
          direction |-> "THEY OWE", net_owed |-> entry.given - entry.taken]
    ELSE [person |-> Title(entry.original_name), key |-> entry.key,
          given |-> entry.given, taken |-> entry.taken,
          direction |-> "Settled", net_owed |-> 0]

\* the "Loan Details by Person" lines of the context
loan_details(expenses_data) ==
    LET person_loans == build_person_loans(<<>>, loans_of(expenses_data))
    IN  [i \in DOMAIN person_loans |-> loan_line(person_loans[i])]

\* the "expenses" list of the context: no income and no loan
rag_is_expense(e) == e.amount > 0 /\ Lower(e.category[1]) \notin {w_income, w_loan}

\* the "income" list of the context: the Income rows and the negative amounts
\* that are no loans
rag_is_income(e) ==
    Lower(e.category[1]) = w_income \/ (e.amount < 0 /\ Lower(e.category[1]) # w_loan)

\* the summary lines of the context; there is none for the empty list
summary_stats(expenses_data) ==
    IF expenses_data = <<>> THEN <<>>
    ELSE LET total_expense == sum(Amounts(SelectSeq(expenses_data, rag_is_expense)))
             total_income  == sum([i \in DOMAIN SelectSeq(expenses_data, rag_is_income) |->
                                      abs(SelectSeq(expenses_data, rag_is_income)[i].amount)])
         IN  <<[total_expense |-> total_expense, total_income |-> total_income,
                net_balance |-> total_income - total_expense]>>

MaxLoans == 3

w_onu == <<"o","n","u">>
w_ram == <<"r","a","m">>
w_empty == <<>>

w_blank == <<" ">>

LoanPayers == {w_sonu, Title(w_sonu), w_onu, w_ram}

LoanAmounts == {-100, 0, 400}

\* the loans with a payer, loans with a null payer ("loan paid 400" is parsed
\* to one), an empty one and a blank one, and an expense that is no loan
LedgerRows ==
    {LoanRow(a, <<p>>) : a \in LoanAmounts, p \in LoanPayers}
        \cup {LoanRow(400, <<>>), LoanRow(400, <<w_empty>>), LoanRow(-100, <<w_blank>>),
              Txn(100, c_Food), Txn(50, c_Income)}

LedgerInputs ==
    UNION {[1..n -> LedgerRows] : n \in 0..MaxLoans} \cup {<<LoanRow(100, <<>>)>>}

\* a call of _prepare_expense_context: the summary and the loan details
PrepareContext ==
    /\ pc = "ledger"
    /\ IF prepare_raises(table)
       THEN /\ pc' = "raised"
            /\ UNCHANGED result
       ELSE /\ pc' = "prepared"
            /\ result' = [loan_details |-> loan_details(table),
                          summary |-> summary_stats(table)]
    /\ UNCHANGED <<text, table, analysis, cfg, cap, trace, inflight, now, otp_store, time>>

LedgerInit ==
    /\ pc = "ledger"
    /\ text = <<>>
    /\ result = NoResult
    /\ table \in LedgerInputs
    /\ analysis = NoAnalysis
    /\ cfg = [gemini_available |-> TRUE, rag |-> "gemini"]
    /\ cap = NoResponse
    /\ trace = <<>>
    /\ otp_store = <<>>
    /\ time = 0
    /\ inflight = 0
    /\ now = ReferenceNow

LedgerNext == PrepareContext

LedgerSpec == LedgerInit /\ [][LedgerNext]_vars

\* the loans of the table attributed to the person of a key: those whose
\* payer has the key's similarity key
LoansOf(key) ==
    {i \in DOMAIN table :
        /\ Lower(table[i].category[1]) = w_loan
        /\ strip(Lower(table[i].paid_by[1])) # <<>>
        /\ person_clean(strip(Lower(table[i].paid_by[1]))) = person_clean(key)}

\* C11: every line of the loan details carries as "given" the sum of the
\* positive loan amounts of its person, as "taken" the sum of the absolute
\* values of the negative ones, and says THEY OWE given - taken when that is
\* positive, YOU OWE taken - given when it is negative, Settled when it is
\* zero; every loan with a payer is attributed to exactly one line.
C11_LedgerNetting ==
    pc = "prepared" =>
        LET lines == result.loan_details
        IN  /\ \A i \in DOMAIN lines :
                LET given == SumOfAmounts({j \in LoansOf(lines[i].key) : table[j].amount > 0})
                    taken == SumOfAbsAmounts({j \in LoansOf(lines[i].key) : table[j].amount < 0})
                    net   == given - taken
                IN  /\ lines[i].given = given
                    /\ lines[i].taken = taken
                    /\ net > 0 => lines[i].direction = "THEY OWE" /\ lines[i].net_owed = net
                    /\ net < 0 => lines[i].direction = "YOU OWE" /\ lines[i].net_owed = -net
                    /\ net = 0 => lines[i].direction = "Settled"
            /\ \A j \in DOMAIN table :
                   (Lower(table[j].category[1]) = w_loan /\ strip(table[j].paid_by[1]) # <<>>)
                   => Cardinality({i \in DOMAIN lines : j \in LoansOf(lines[i].key)}) = 1

\* loans of +400 and -100 of two spellings of one person netted to THEY OWE 300
C11_Witness ==
    /\ pc = "prepared"
    /\ table = <<LoanRow(400, <<Title(w_sonu)>>), LoanRow(-100, <<w_onu>>)>>
    /\ Len(result.loan_details) = 1
    /\ result.loan_details[1].direction = "THEY OWE"
    /\ result.loan_details[1].net_owed = 300
-----------------------------------------------------------------------------
(* ExpenseAnalyzer.extract_time_period.  A window is (start, end, period); *)
(* None is the empty tuple, a value is held in a one-element tuple.        *)

\* query.lower() of a query given as its tokens
query_lower(query) == Lower(Join(query))

\* 'a b' in query_lower, the phrase given as its words
has(q, words) == Contains(q, Join(words))

no_window == [start |-> <<>>, end |-> <<>>, period |-> <<>>]

window(start, end, period) == [start |-> <<start>>, end |-> <<end>>, period |-> <<period>>]

\* midnight of the first day of a month
first_of_month(year, month) == datetime(year, month, 1, 0)

\* datetime(year, month + 1, 1) - timedelta(days=1), and its January form
last_of_month(year, month) ==
    IF month = 12
    THEN minus_days(first_of_month(year + 1, 1), 1)
    ELSE minus_days(first_of_month(year, month + 1), 1)

\* the window of "last month" when the year is not looked at
last_month_same_year(clock) ==
    IF clock.month = 1
    THEN window(first_of_month(clock.year, 12),
                minus_days(first_of_month(clock.year, 1), 1),
                [kind |-> "last month"])
    ELSE window(first_of_month(clock.year, clock.month - 1),
                minus_days(first_of_month(clock.year, clock.month), 1),
                [kind |-> "last month"])

\* the window of "last month" / "previous month"
last_month(clock) ==
    IF clock.month = 1
    THEN window(first_of_month(clock.year - 1, 12),
                minus_days(first_of_month(clock.year, 1), 1),
                [kind |-> "last month"])
    ELSE window(first_of_month(clock.year, clock.month - 1),
                minus_days(first_of_month(clock.year, clock.month), 1),
                [kind |-> "last month"])

\* the first entry of months whose name is in the query, or 0
first_month_in(q) ==
    IF \E i \in DOMAIN months : Contains(q, months[i][1])
    THEN CHOOSE i \in DOMAIN months :
             /\ Contains(q, months[i][1])
             /\ \A j \in 1..(i - 1) : ~Contains(q, months[j][1])
    ELSE 0

\* the window of a month name
named_month(clock, i) ==
    LET month_num == months[i][2]
        year      == IF month_num > clock.month THEN clock.year - 1 ELSE clock.year
    IN  window(first_of_month(year, month_num), last_of_month(year, month_num),
               [kind |-> "month", name |-> Title(months[i][1]), year |-> year])

\* re.search(r'last (\d+) days?', query_lower): the number of the first
\* match in a one-element tuple, or the empty tuple
days_match(q) ==
    LET at(i, k) == /\ i + 8 + k <= Len(q)
                    /\ SubSeq(q, i, i + 4) = <<"l","a","s","t"," ">>
                    /\ IsNumber(SubSeq(q, i + 5, i + 4 + k))
                    /\ SubSeq(q, i + 5 + k, i + 8 + k) = <<" ","d","a","y">>
        starts   == {i \in 1..Len(q) : \E k \in 1..Len(q) : at(i, k)}
    IN  IF starts = {} THEN <<>>
        ELSE LET i == CHOOSE j \in starts : \A l \in starts : j <= l
                 k == CHOOSE l \in 1..Len(q) : at(i, l)
             IN  <<ToInt(SubSeq(q, i + 5, i + 4 + k))>>

\* the window of "this week" / "current week"
this_week(clock) ==
    window(minus_days(clock, weekday(clock)), clock, [kind |-> "this week"])

\* the window of "last week" / "previous week"
last_week(clock) ==
    window(minus_days(clock, weekday(clock) + 7), minus_days(clock, weekday(clock) + 1),
           [kind |-> "last week"])

extract_time_period(query, clock) ==
    LET q == query_lower(query)
    IN  IF has(q, <<w_this, w_month>>) \/ has(q, <<w_current, w_month>>)
        THEN window(first_of_month(clock.year, clock.month), clock, [kind |-> "this month"])
        ELSE IF has(q, <<w_last, w_month>>) \/ has(q, <<w_previous, w_month>>)
        THEN last_month(clock)
        ELSE IF first_month_in(q) # 0
        THEN named_month(clock, first_month_in(q))
        ELSE IF has(q, <<w_this, w_week>>) \/ has(q, <<w_current, w_week>>)
        THEN this_week(clock)
        ELSE IF has(q, <<w_last, w_week>>) \/ has(q, <<w_previous, w_week>>)
        THEN last_week(clock)
        ELSE IF has(q, <<w_today>>)
        THEN window(datetime(clock.year, clock.month, clock.day, 0), clock,
                    [kind |-> "today"])
        ELSE IF has(q, <<w_yesterday>>)
        THEN LET start == [minus_days(clock, 1) EXCEPT !.second = 0]
             IN  window(start, [start EXCEPT !.second = 86399], [kind |-> "yesterday"])
        ELSE IF days_match(q) # <<>>
        THEN window(minus_days(clock, days_match(q)[1]), clock,
                    [kind |-> "last days", days |-> days_match(q)[1]])
        ELSE no_window
-----------------------------------------------------------------------------
(* The analyzer's queries: extract_time_period and filter_by_date_range    *)
(* on their own, and process_query.                                        *)

\* a row of expenses_data with a date: None (the empty tuple) or a string
DatedRow(amount, category, date) ==
    [amount |-> amount, category |-> <<category>>, item |-> w_item, paid_by |-> <<>>,
     date |-> date]

\* n written with two digits, and a date written as YYYY-MM-DD
two_digits(n) == <<Digits[(n \div 10) + 1], Digits[(n % 10) + 1]>>

isoformat(d) ==
    two_digits(d.year \div 100) \o two_digits(d.year % 100) \o <<"-">>
    \o two_digits(d.month) \o <<"-">> \o two_digits(d.day)

\* the clocks of the model: ClockDays days from 28 December 2023 and ClockDays
\* days from 4 March 2024, each at midnight, at noon and in the last
\* second of the day
ClockDays == 14

ClockStarts == {toordinal(datetime(2023, 12, 28, 0)), toordinal(datetime(2024, 3, 4, 0))}

Clocks ==
    {fromordinal(first + n, s) :
        first \in ClockStarts, n \in 0..(ClockDays - 1), s \in {0, 43200, 86399}}

\* dates that are absent or do not parse: None, '', a word, a day that does
\* not exist, a month that does not exist, other separators, trailing text
UndatedValues ==
    << <<>>, <<w_empty>>, <<w_today>>,
       <<<<"2","0","2","4","-","0","2","-","3","0">>>>,
       <<<<"2","0","2","4","-","1","3","-","0","1">>>>,
       <<<<"2","0","2","4","/","0","2","/","1","0">>>>,
       <<<<"2","0","2","4","-","0","2","-","1","0","x">>>> >>

\* the number of days before the clock on which the table has an expense
DaysBack == 48

\* the day of the i-th row of the calendar table
DayOf(clock, i) == fromordinal(toordinal(clock) - DaysBack - 1 + i, 0)

\* one expense of 100 on every day from DaysBack days before the clock to the
\* day after it, written as a date, as a date with "T" and a time, or as a
\* date with a blank and a time, followed by an expense of 50 for each of
\* the undated values (the rows have no 'created_at')
CalendarTable(clock) ==
    [i \in 1..(DaysBack + 2) |->
        DatedRow(100, c_Food,
                 <<isoformat(DayOf(clock, i))
                   \o (IF i % 3 = 1 THEN <<"T","1","0",":","3","0",":","0","0">>
                       ELSE IF i % 3 = 2 THEN <<" ","1","0",":","3","0">>
                       ELSE <<>>)>>)]
    \o [i \in DOMAIN UndatedValues |-> DatedRow(50, c_Food, UndatedValues[i])]

WindowQueries ==
    { <<w_last, w_month>>, <<w_previous, w_month>>, <<Title(w_last), Title(w_month)>>,
      <<w_this, w_month>>, <<w_this, w_week>>, <<w_current, w_week>>,
      <<w_last, w_week>>, <<w_previous, w_week>>, <<w_today>>, <<w_yesterday>>,
      <<w_last, w_7, w_days>>, <<w_blast, w_2, w_day>>, <<w_last, w_days>>,
      <<w_spent, w_in, w_february>>, <<w_total>>, <<w_food>>,
      <<w_summary>>, <<w_market>>, <<w_total, w_on, w_food>> }

\* a call of extract_time_period
ExtractTimePeriod ==
    /\ pc = "period"
    /\ pc' = "resolved"
    /\ result' = extract_time_period(text, now)
    /\ UNCHANGED <<text, table, analysis, cfg, cap, trace, inflight, now, otp_store, time>>

\* a call of filter_by_date_range with the window found for the query
FilterByDateRange ==
    /\ pc = "resolved"
    /\ pc' = "filtered"
    /\ result' = [start |-> result.start, end |-> result.end, period |-> result.period,
                  filtered |-> filter_by_date_range(table, result.start, result.end)]
    /\ UNCHANGED <<text, table, analysis, cfg, cap, trace, inflight, now, otp_store, time>>

QueryInit ==
    /\ now \in Clocks
    /\ \/ /\ pc = "period"
          /\ text \in WindowQueries
          /\ table = CalendarTable(now)
       \/ /\ pc = "analyzer"
          /\ text = <<>>
          /\ table = SubSeq(CalendarTable(now), DaysBack, DaysBack + 2 + Len(UndatedValues))
    /\ result = NoResult
    /\ analysis = NoAnalysis
    /\ cfg = [gemini_available |-> FALSE, rag |-> "none"]
    /\ cap = NoResponse
    /\ trace = <<>>
    /\ otp_store = <<>>
    /\ time = 0
    /\ inflight = 0

QueryNext ==
    \/ ExtractTimePeriod
    \/ FilterByDateRange
    \/ AnalyzeExpenses

QuerySpec == QueryInit /\ [][QueryNext]_vars

\* the rows of the table that were kept by the filter
Kept == {i \in DOMAIN table : \E j \in DOMAIN result.filtered : result.filtered[j] = table[i]}

\* the calendar month before the month of the clock
PriorMonth ==
    IF now.month = 1 THEN [year |-> now.year - 1, month |-> 12]
    ELSE [year |-> now.year, month |-> now.month - 1]

AsksLastMonth ==
    \/ has(query_lower(text), <<w_last, w_month>>)
    \/ has(query_lower(text), <<w_previous, w_month>>)

UndatedRows == {i \in DOMAIN table : table[i].date \in Range(UndatedValues)}

\* a day is inside the window found for the query
InWindow(d) ==
    /\ result.start # <<>> => ~earlier(d, result.start[1])
    /\ result.end # <<>> => ~earlier(result.end[1], d)

-----------------------------------------------------------------------------
(* Parse requests that find no transaction.                                *)

\* the request in progress is a parse request
IsParseRequest == trace # <<>> /\ trace[1] \in {"capability", "rule_based"}

\* a parse request whose fallbacks all ran (the rule-based parser and the
\* last-resort extraction) and that ends with no transaction returns the
\* "No expenses found" reply of _generate_reply
NoExpensesAfterAllFallbacks ==
    (pc = "done" /\ "simple_extract" \in Steps /\ result.expenses = <<>>) =>
        /\ result.reply = "no_expenses_found"
        /\ result.source = "rule_based"

\* C13: every parse request that ends with no transaction, the request for the
\* empty text in particular, returns the empty list with the "No expenses
\* found" reply, and not the reply of an error.
C13_NoExpensesFound ==
    (pc = "done" /\ IsParseRequest /\ result.expenses = <<>>) =>
        result.reply = "no_expenses_found"
-----------------------------------------------------------------------------
(* The categorizer alone: ExpenseParser._categorize applied to a           *)
(* description.                                                            *)

MaxWords == 2

CategorizerVocab ==
    {w_tea, w_petrol, w_fan, w_gym, w_steak, w_fee, w_bank, w_xyz, w_Biryani, w_hotel,
     w_rent, w_salary, w_phone, w_bill}

\* every description of at most MaxWords words of the vocabulary
CategorizerInputs == UNION {[1..n -> CategorizerVocab] : n \in 0..MaxWords}

\* a call of _categorize
Categorize ==
    /\ pc = "categorizer"
    /\ pc' = "categorized"
    /\ result' = [category |-> categorize(Join(text))]
    /\ UNCHANGED <<text, table, analysis, cfg, cap, trace, inflight, now, otp_store, time>>

CategorizerInit ==
    /\ pc = "categorizer"
    /\ text \in CategorizerInputs
    /\ result = NoResult
    /\ table = <<>>
    /\ analysis = NoAnalysis
    /\ cfg = [gemini_available |-> FALSE, rag |-> "none"]
    /\ cap = NoResponse
    /\ trace = <<>>
    /\ otp_store = <<>>
    /\ time = 0
    /\ inflight = 0
    /\ now = ReferenceNow

CategorizerNext == Categorize

CategorizerSpec == CategorizerInit /\ [][CategorizerNext]_vars

\* the entries of a keyword table that have a keyword occurring in the
\* lower-cased description
Matching(tbl) ==
    {i \in DOMAIN tbl :
        \E k \in DOMAIN tbl[i].keywords : Contains(Lower(Join(text)), tbl[i].keywords[k])}

Least(S) == CHOOSE i \in S : \A j \in S : i <= j

\* C15: _categorize returns a category for every description: the first
\* category of the primary table, in the order of its declaration, that has a
\* keyword occurring in the description; the category of the first matching
\* entry of the secondary table only if no primary category matches; and
\* "Other" only if neither table matches.
C15_Categorizer ==
    pc = "categorized" =>
        LET primary   == Matching(categories)
            secondary == Matching(smart_categories)
        IN  /\ primary # {} => result.category = Title(categories[Least(primary)].name)
            /\ (primary = {} /\ secondary # {}) =>
                   result.category = smart_categories[Least(secondary)].name
            /\ (primary = {} /\ secondary = {}) => result.category = c_Other
            /\ result.category = c_Other => (primary = {} /\ secondary = {})

\* "tea petrol" has keywords of food and of transport, and food is declared
\* first
C15_Witness ==
    /\ pc = "categorized"
    /\ text = <<w_tea, w_petrol>>
    /\ Cardinality(Matching(categories)) = 2
    /\ result.category = c_Food
-----------------------------------------------------------------------------
(* The segments of ExpenseParser.parse.                                    *)

\* the segments of the text and those of them that a rule matches
Segments == Split(text, <<>>)

MatchingSegments == SelectSeq(Segments, LAMBDA s : parse_single_expense(s) # NoMatch)

\* segments written as one text, with commas between them
RECURSIVE JoinSegments(_)
JoinSegments(segs) ==
    IF Len(segs) = 0 THEN <<>>
    ELSE IF Len(segs) = 1 THEN segs[1]
    ELSE segs[1] \o <<w_comma>> \o JoinSegments(Tail(segs))

\* C16: the list returned by the rule-based parser is the list of the results
\* of the segments that match a rule, in the order of the segments, whatever
\* the segments without a match between them; it is the list returned for the
\* text of the matching segments alone.
C16_SegmentsIndependent ==
    (pc \in {"simple_extract", "done"} /\ result.source = "rule_based") =>
        /\ result.expenses =
               [i \in DOMAIN MatchingSegments |-> parse_single_expense(MatchingSegments[i])[1]]
        /\ result.expenses = parse(JoinSegments(MatchingSegments)).expenses

\* a segment without a match before a segment with one
C16_Witness ==
    /\ pc = "done"
    /\ result.source = "rule_based"
    /\ Len(Segments) = 2
    /\ parse_single_expense(Segments[1]) = NoMatch
    /\ Len(result.expenses) = 1
-----------------------------------------------------------------------------
(* Week windows.                                                           *)

\* the day number of the Monday of the clock's week, and of the i-th row of
\* the calendar table
MondayOf(clock) == toordinal(clock) - weekday(clock)

OrdinalOf(i) == toordinal(now) - DaysBack - 1 + i

\* C17: "this week" / "current week" gives the window from the Monday of the
\* current week at the start of the day to now, "last week" / "previous week"
\* the window from the Monday before to the Sunday before; the filter keeps
\* every transaction dated on a day of the window, its Monday included, at
\* every time of day of the clock.
C17_WeekWindows ==
    pc = "filtered" =>
        LET kept == Kept
        IN  /\ text \in {<<w_this, w_week>>, <<w_current, w_week>>} =>
                   /\ toordinal(result.start[1]) = MondayOf(now)
                   /\ result.start[1].second = 0
                   /\ result.end[1] = now
                   /\ \A i \in 1..(DaysBack + 2) :
                          (MondayOf(now) <= OrdinalOf(i) /\ OrdinalOf(i) <= toordinal(now))
                          => i \in kept
            /\ text \in {<<w_last, w_week>>, <<w_previous, w_week>>} =>
                   /\ toordinal(result.start[1]) = MondayOf(now) - 7
                   /\ toordinal(result.end[1]) = MondayOf(now) - 1
                   /\ \A i \in 1..(DaysBack + 2) :
                          (MondayOf(now) - 7 <= OrdinalOf(i) /\ OrdinalOf(i) <= MondayOf(now) - 1)
                          => i \in kept
-----------------------------------------------------------------------------
(* Queries without a time phrase.                                          *)

\* the lower-cased words of the query have the words of a phrase in a row
HasWords(words) ==
    \E i \in 0..(Len(text) - Len(words)) :
        \A j \in DOMAIN words : Lower(text[i + j]) = words[j]

\* the query has one of the time phrases as words
HasTimePhrase ==
    \/ \E a \in {w_this, w_current, w_last, w_previous}, b \in {w_month, w_week} :
           HasWords(<<a, b>>)
    \/ \E i \in DOMAIN months : HasWords(<<months[i][1]>>)
    \/ HasWords(<<w_today>>)
    \/ HasWords(<<w_yesterday>>)
    \/ \E i \in 1..(Len(text) - 2) :
           /\ Lower(text[i]) = w_last
           /\ IsNumber(text[i + 1])
           /\ Lower(text[i + 2]) \in {w_day, w_days}

\* C18: for a query that has none of the time phrases as words, a month name
\* inside a longer word included, extract_time_period returns
\* (None, None, None), and no date filter is applied.
C18_NoTimePhrase ==
    (pc \in {"resolved", "filtered"} /\ ~HasTimePhrase) =>
        /\ result.start = <<>>
        /\ result.end = <<>>
        /\ result.period = <<>>
-----------------------------------------------------------------------------
(* ExpenseAnalyzer.process_query.  A response is the number of the branch  *)
(* that wrote it (in the order of the source) and the values it shows.     *)

\* any(word in query_lower for word in words)
any_word(q, words) == \E i \in DOMAIN words : Contains(q, words[i])

\* dict.get(key, 0) on a dict kept as its (key, value) pairs
dict_get(dict, key) ==
    IF \E i \in DOMAIN dict : dict[i][1] = key
    THEN dict[CHOOSE i \in DOMAIN dict : dict[i][1] = key][2]
    ELSE 0

\* the loop over the predefined categories, from the i-th on
RECURSIVE add_predefined(_, _, _)
add_predefined(matched, i, q) ==
    IF i > Len(analyzer_categories) THEN matched
    ELSE LET cat_lower == Lower(analyzer_categories[i].name)
         IN  IF /\ cat_lower \notin Range(matched)
                /\ (Contains(q, cat_lower) \/ any_word(q, analyzer_categories[i].keywords))
             THEN add_predefined(Append(matched, cat_lower), i + 1, q)
             ELSE add_predefined(matched, i + 1, q)

\* the detection of categories when it finds none
matched_none(q, snapshot) == <<>>

\* matched_categories: the categories of the data named in the query, then
\* the predefined categories named in it or having a keyword in it
matched_categories(q, snapshot) ==
    add_predefined(
        SelectSeq([i \in DOMAIN snapshot.categories |-> snapshot.categories[i][1]],
                  LAMBDA c : Contains(q, c)),
        1, q)

\* the number of expenses of a category
category_count(expenses_data, cat) ==
    Len(SelectSeq(expenses_data, LAMBDA exp : Lower(exp.category[1]) = cat /\ exp.amount > 0))

\* category_details: the matched categories with an amount, as
\* (category, amount, count)
category_details(matched, snapshot, expenses_data) ==
    LET spent == SelectSeq(matched, LAMBDA cat : dict_get(snapshot.categories, cat) > 0)
    IN  [i \in DOMAIN spent |->
            <<spent[i], dict_get(snapshot.categories, spent[i]),
              category_count(expenses_data, spent[i])>>]

\* item_keywords of find_specific_item: the words after on / for / spend /
\* spent that are no aggregate words, then the common items in the query
item_keywords(words, q) ==
    LET after == SelectSeq([i \in 1..(Len(words) - 1) |->
                               IF words[i] \in Range(item_prepositions)
                                  /\ words[i + 1] \notin Range(aggregate_keywords)
                               THEN <<words[i + 1]>> ELSE <<>>],
                           LAMBDA w : w # <<>>)
    IN  [i \in DOMAIN after |-> after[i][1]]
        \o SelectSeq(common_items, LAMBDA item : Contains(q, item))

\* find_specific_item: None (the empty tuple) or the result in a one-element
\* tuple; the rows have no 'remarks'
find_specific_item(words, q, expenses_data) ==
    LET keywords == item_keywords(words, q)
        matching == SelectSeq(expenses_data, LAMBDA expense :
                        \E k \in DOMAIN keywords : Contains(Lower(expense.item), keywords[k]))
    IN  IF keywords = <<>> \/ matching = <<>> THEN <<>>
        ELSE <<[item_name |-> keywords[1], total_amount |-> sum(Amounts(matching)),
                count |-> Len(matching)]>>

\* the category of a who-paid question: the first key of self.categories
\* that is in the query, or nothing
category_found(q) ==
    LET named == {i \in DOMAIN analyzer_categories : Contains(q, analyzer_categories[i].name)}
    IN  IF named = {} THEN <<>>
        ELSE <<analyzer_categories[CHOOSE i \in named : \A j \in named : i <= j].name>>

\* exp.get('paid_by') is truthy
has_payer(exp) == exp.paid_by # <<>> /\ exp.paid_by[1] # <<>>

\* the who-paid branch
who_paid(q, snapshot) ==
    LET found == category_found(q)
    IN  IF found # <<>>
        THEN LET category_expenses ==
                     SelectSeq(snapshot.recent_expenses,
                               LAMBDA exp : Lower(exp.category[1]) = found[1])
                 recent_with_payer == SelectSeq(category_expenses, has_payer)
             IN  IF category_expenses # <<>>
                 THEN IF recent_with_payer # <<>>
                      THEN [branch |-> 13, reply |-> "last_category_expense",
                            category |-> found, latest |-> <<recent_with_payer[1]>>]
                      ELSE [branch |-> 13, reply |-> "no_payment_information",
                            category |-> found, latest |-> <<>>]
                 ELSE [branch |-> 13, reply |-> "no_recent_category_expenses",
                       category |-> found, latest |-> <<>>]
        ELSE LET recent_with_payer == SelectSeq(snapshot.recent_expenses, has_payer)
             IN  IF recent_with_payer # <<>>
                 THEN [branch |-> 13, reply |-> "most_recent_with_payment_info",
                       category |-> found, latest |-> <<recent_with_payer[1]>>]
                 ELSE [branch |-> 13, reply |-> "no_recent_payment_information",
                       category |-> found, latest |-> <<>>]

\* the part of process_query after the time filter
answer(words, q, snapshot, expenses_data) ==
    LET matched == matched_categories(q, snapshot)
        details == category_details(matched, snapshot, expenses_data)
        item    == find_specific_item(words, q, expenses_data)
    IN  IF Len(matched) > 1 /\ details # <<>>
        THEN [branch |-> 2, categories |-> matched, details |-> details,
              total_amount |-> sum([i \in DOMAIN details |-> details[i][2]]),
              total_count |-> sum([i \in DOMAIN details |-> details[i][3]])]
        ELSE IF Len(matched) = 1
        THEN [branch |-> 3, category |-> matched[1],
              amount |-> dict_get(snapshot.categories, matched[1])]
        ELSE IF any_word(q, income_words)
        THEN [branch |-> 4, total_income |-> snapshot.total_income]
        ELSE IF any_word(q, total_words)
        THEN [branch |-> 5, total |-> snapshot.total, count |-> snapshot.count]
        ELSE IF expenses_data # <<>> /\ any_word(q, item_words) /\ item # <<>>
        THEN [branch |-> 6, item_name |-> item[1].item_name,
              total_amount |-> item[1].total_amount, count |-> item[1].count]
        ELSE IF any_word(q, spending_words)
        THEN [branch |-> 7, total |-> snapshot.total, count |-> snapshot.count]
        ELSE IF any_word(q, breakdown_words) /\ snapshot.top_categories # <<>>
        THEN [branch |-> 8, top_categories |-> snapshot.top_categories]
        ELSE IF any_word(q, recent_words) /\ snapshot.recent_expenses # <<>>
        THEN [branch |-> 9, recent |-> Take(snapshot.recent_expenses, 3)]
        ELSE IF any_word(q, average_words)
        THEN IF snapshot.days_tracked = <<>>
             THEN [branch |-> 10, raised |-> TRUE]
             ELSE [branch |-> 10, raised |-> FALSE, days_tracked |-> snapshot.days_tracked[1]]
        ELSE IF /\ Contains(q, w_most)
                /\ (Contains(q, w_spent) \/ Contains(q, w_expensive))
                /\ snapshot.top_categories # <<>>
        THEN [branch |-> 11, top |-> snapshot.top_categories[1]]
        ELSE IF any_word(q, count_words)
        THEN [branch |-> 12, total |-> snapshot.total, count |-> snapshot.count]
        ELSE IF any_word(q, who_paid_words)
        THEN who_paid(q, snapshot)
        ELSE IF any_word(q, help_words)
        THEN [branch |-> 14]
        ELSE IF any_word(q, balance_words)
        THEN [branch |-> 15, net_balance |-> snapshot.net_balance]
        ELSE [branch |-> 16, total |-> snapshot.total, count |-> snapshot.count]

\* ExpenseAnalyzer.process_query
process_query(query, snapshot, expenses_data, clock) ==
    LET q      == query_lower(query)
        words  == [i \in DOMAIN query |-> Lower(query[i])]
        period == extract_time_period(query, clock)
    IN  IF period.start # <<>> /\ expenses_data # <<>>
        THEN LET filtered_expenses ==
                     filter_by_date_range(expenses_data, period.start, period.end)
             IN  IF filtered_expenses = <<>>
                 THEN [branch |-> 1, period |-> period.period[1]]
                 ELSE answer(words, q, analyze_expenses(filtered_expenses),
                             filtered_expenses)
        ELSE answer(words, q, snapshot, expenses_data)
-----------------------------------------------------------------------------
(* The router alone: process_query applied to a query, the analysis of a   *)
(* table and the table.                                                    *)

ItemRow(amount, category, item, date) ==
    [amount |-> amount, category |-> <<category>>, item |-> item, paid_by |-> <<>>,
     date |-> <<date>>]

PaidRow(amount, category, item, payer, date) ==
    [amount |-> amount, category |-> <<category>>, item |-> item, paid_by |-> <<payer>>,
     date |-> <<date>>]

d_2024_03_05 == <<"2","0","2","4","-","0","3","-","0","5">>

d_2024_01_10 == <<"2","0","2","4","-","0","1","-","1","0">>

RouterTables ==
    { <<>>,
      <<ItemRow(50, w_Transport, w_taxi, d_2024_03_05)>>,
      <<ItemRow(100, c_Food, w_biryani, d_2024_03_05),
        ItemRow(500, w_rent, w_xyz, d_2024_01_10),
        ItemRow(50, w_Transport, w_taxi, d_2024_03_05)>>,
      <<ItemRow(100, c_Food, w_biryani, d_2024_03_05),
        ItemRow(-1000, c_Income, w_salary, d_2024_03_05),
        ItemRow(200, w_food, w_tea, d_2024_01_10)>>,
      <<ItemRow(-1000, c_Income, w_salary, d_2024_01_10)>>,
      <<PaidRow(100, c_Food, w_biryani, w_ram, d_2024_03_05),
        ItemRow(50, w_Transport, w_taxi, d_2024_03_05)>>,
      <<ItemRow(50, w_Transport, w_taxi, d_2024_03_05),
        PaidRow(300, w_Shopping, w_xyz, w_sonu, d_2024_03_05)>> }

RouterQueries ==
    { <<w_food, w_rent>>, <<w_food, w_and, w_rent>>, <<w_biryani, w_petrol>>,
      <<w_food>>, <<w_rent>>, <<w_transport>>, <<w_income>>, <<w_total>>, <<w_all>>,
      <<w_spent, w_on, w_biryani>>, <<w_spent, w_on, w_pizza>>, <<w_how, w_much>>,
      <<w_much, w_for, w_xyz>>, <<w_expense>>, <<w_breakdown>>, <<w_categories>>,
      <<w_recent>>, <<w_latest>>, <<w_average>>, <<w_daily>>, <<w_most, w_expensive>>,
      <<w_how, w_many>>, <<w_count>>, <<w_who, w_paid>>, <<w_help>>, <<w_balance>>,
      <<w_remaining>>, <<w_xyz>>, <<w_hello>>, <<>>,
      <<w_food, w_this, w_month>>, <<w_food, w_rent, w_this, w_month>>,
      <<w_total, w_last, w_month>>, <<w_xyz, w_today>>, <<w_xyz, w_this, w_month>>,
      <<w_Food, w_Rent>>, <<w_breakdown, w_today>>, <<w_recent, w_yesterday>>,
      <<w_food, w_rent, w_income>>, <<w_most, w_expensive, w_today>>,
      <<w_who, w_paid, w_food>>, <<w_who, w_paid, w_food, w_rent>>,
      <<w_who, w_paid, w_food, w_today>>, <<w_paid, w_by, w_xyz>> }

RouterClocks == {datetime(2024, 3, 6, 43200), datetime(2024, 4, 2, 0)}

\* a call of process_query with the analysis of the table
ProcessQuery ==
    /\ pc = "query"
    /\ LET response == process_query(text, analysis, table, now)
       IN  IF response.branch = 10 /\ response.raised
           THEN /\ pc' = "raised"
                /\ UNCHANGED result
           ELSE /\ pc' = "answered"
                /\ result' = response
    /\ UNCHANGED <<text, table, analysis, cfg, cap, trace, inflight, now, otp_store, time>>

RouterInit ==
    /\ pc = "query"
    /\ text \in RouterQueries
    /\ result = NoResult
    /\ table \in RouterTables
    /\ analysis = analyze_expenses(table)
    /\ cfg = [gemini_available |-> FALSE, rag |-> "none"]
    /\ cap = NoResponse
    /\ trace = <<>>
    /\ otp_store = <<>>
    /\ time = 0
    /\ inflight = 0
    /\ now \in RouterClocks

RouterNext == ProcessQuery

RouterSpec == RouterInit /\ [][RouterNext]_vars
-----------------------------------------------------------------------------
(* The order of the branches of process_query.                             *)

\* the time window found in the query of the state
RouterPeriod == extract_time_period(text, now)

\* the time filter was applied: a window was found and there are transactions
TimeFiltered == RouterPeriod.start # <<>> /\ table # <<>>

\* the transactions the branches after the time filter work on
RouterData ==
    IF TimeFiltered
    THEN filter_by_date_range(table, RouterPeriod.start, RouterPeriod.end)
    ELSE table

\* the analysis the branches after the time filter work on
RouterSnapshot == IF TimeFiltered THEN analyze_expenses(RouterData) ELSE analysis

\* the categories detected in the query
Detected == matched_categories(query_lower(text), RouterSnapshot)

\* the condition that opens branch k of process_query
Trigger(k) ==
    LET q     == query_lower(text)
        words == [i \in DOMAIN text |-> Lower(text[i])]
    IN  CASE k = 1  -> TimeFiltered /\ RouterData = <<>>
          [] k = 2  -> Len(Detected) > 1
          [] k = 3  -> Len(Detected) = 1
          [] k = 4  -> any_word(q, income_words)
          [] k = 5  -> any_word(q, total_words)
          [] k = 6  -> any_word(q, item_words) /\ item_keywords(words, q) # <<>>
          [] k = 7  -> any_word(q, spending_words)
          [] k = 8  -> any_word(q, breakdown_words)
          [] k = 9  -> any_word(q, recent_words)
          [] k = 10 -> any_word(q, average_words)
          [] k = 11 -> Contains(q, w_most) /\ (Contains(q, w_spent) \/ Contains(q, w_expensive))
          [] k = 12 -> any_word(q, count_words)
          [] k = 13 -> any_word(q, who_paid_words)
          [] k = 14 -> any_word(q, help_words)
          [] k = 15 -> any_word(q, balance_words)
          [] OTHER  -> TRUE

FirstTriggered == CHOOSE k \in 1..16 : Trigger(k) /\ \A j \in 1..(k - 1) : ~Trigger(j)

Answered == pc = "answered"

\* C19: the response of process_query is written by the first branch, in
\* the order 1..16, whose trigger matches the query; after a trigger has
\* matched no later branch writes the response.
C19_OrderedChecklist == Answered => result.branch = FirstTriggered

\* the combined total over the detected categories
DetectedTotal ==
    sum([i \in DOMAIN Detected |-> dict_get(RouterSnapshot.categories, Detected[i])])

\* C20: when more than one category is detected in the query and the time
\* filter did not answer, process_query answers with the combined total
\* of the detected categories and a breakdown by category.
C20_MultiCategory ==
    (Answered /\ Len(Detected) > 1 /\ ~Trigger(1))
        => /\ result.branch = 2
           /\ result.total_amount = DetectedTotal
           /\ result.details # <<>>

\* what does hold: a response of the multi-category branch carries the sum
\* of the positive amounts of the detected categories
MultiCategoryTotal ==
    (Answered /\ result.branch = 2)
        => /\ Len(Detected) > 1
           /\ ~Trigger(1)
           /\ result.total_amount = sum([i \in DOMAIN result.details |-> result.details[i][2]])
           /\ \A i \in DOMAIN result.details : result.details[i][2] > 0

\* what does hold: the response is written by a branch whose trigger
\* matches, and a later one than the first only if the first wrote nothing
BranchTriggered == Answered => Trigger(result.branch) /\ result.branch >= FirstTriggered
-----------------------------------------------------------------------------
(* The names of the loan ledger.                                           *)

\* the first loan of the table attributed to the person of a key
FirstLoanOf(key) == CHOOSE j \in LoansOf(key) : \A k \in LoansOf(key) : j <= k

\* the last loan of the table attributed to the person of a key
LastLoanOf(key) == CHOOSE j \in LoansOf(key) : \A k \in LoansOf(key) : j >= k

\* C21: two payer names are one person of the loan details exactly when
\* their similarity keys are equal, and the name shown for a person is the
\* first-seen name among those merged.
C21_FirstSeenName ==
    pc = "prepared" =>
        LET lines == result.loan_details
        IN  /\ \A i, j \in DOMAIN lines :
                   person_clean(lines[i].key) = person_clean(lines[j].key) => i = j
            /\ \A i \in DOMAIN lines :
                   lines[i].person = Title(strip(Lower(table[FirstLoanOf(lines[i].key)].paid_by[1])))

\* what does hold: the persons are told apart by their similarity keys, the
\* key of a person is the first-seen name and the name shown is the last-seen
LastSeenName ==
    pc = "prepared" =>
        LET lines == result.loan_details
        IN  /\ \A i, j \in DOMAIN lines :
                   person_clean(lines[i].key) = person_clean(lines[j].key) => i = j
            /\ \A i \in DOMAIN lines :
                   /\ lines[i].key = strip(Lower(table[FirstLoanOf(lines[i].key)].paid_by[1]))
                   /\ lines[i].person = Title(strip(Lower(table[LastLoanOf(lines[i].key)].paid_by[1])))
-----------------------------------------------------------------------------
(* Loans without a payer.                                                  *)

IsLoan(e) == Lower(e.category[1]) = w_loan

\* the payer is absent: null, or the empty string
AbsentPayer(e) == e.paid_by = <<>> \/ e.paid_by = <<w_empty>>

HasAbsentPayer == \E i \in DOMAIN table : IsLoan(table[i]) /\ AbsentPayer(table[i])

\* the table without its loans of no payer
WithoutAbsentPayers == SelectSeq(table, LAMBDA e : ~(IsLoan(e) /\ AbsentPayer(e)))

LedgerDone == pc \in {"prepared", "raised"}

\* C22: a loan whose paid_by is absent is skipped by the loan details: it
\* is counted for no person, and the lines of all other persons of the
\* table are computed and written as without it.
C22_AbsentPayerSkipped ==
    (LedgerDone /\ HasAbsentPayer)
        => /\ pc = "prepared"
           /\ result.loan_details = loan_details(WithoutAbsentPayers)

\* what does hold: a loan whose paid_by is the empty string is skipped, and
\* a loan whose paid_by is null ends the call without any line
EmptyPayerSkipped ==
    /\ (pc = "prepared" /\ HasAbsentPayer)
           => result.loan_details = loan_details(WithoutAbsentPayers)
    /\ (LedgerDone /\ \E i \in DOMAIN table : IsLoan(table[i]) /\ table[i].paid_by = <<>>)
           => pc = "raised"
-----------------------------------------------------------------------------
(* The shape of what the capability's parse gives back.                    *)

\* the answer of the capability is a list, not empty, of transactions
WellFormed(r) ==
    /\ r.kind = "object"
    /\ r.expenses.type = "list"
    /\ r.expenses.list # <<>>
    /\ \A i \in DOMAIN r.expenses.list : r.expenses.list[i].shape = "transaction"

\* a parse request that called the capability has ended
ParseAnswered == pc = "done" /\ IsParseRequest /\ cap # NoResponse

\* C23: parse_expense returns the capability's parse only if it is a
\* well-formed list of transactions; after any other answer of the
\* capability the rule-based parser runs.
C23_WellFormedOnly ==
    ParseAnswered
        => /\ result.source = "capability" => WellFormed(cap)
           /\ ~WellFormed(cap) => \E i \in DOMAIN trace : trace[i] = "rule_based"

\* what does hold: the capability's parse is returned exactly when it has a
\* list under "expenses" that is not empty, and a reply or amounts to sum
CapabilityParseReturned ==
    ParseAnswered
        => (result.source = "capability"
               <=> /\ cap.kind = "object"
                   /\ cap.expenses.type = "list"
                   /\ cap.expenses.list # <<>>
                   /\ (cap.reply = "absent" => Summable(cap.expenses)))
-----------------------------------------------------------------------------
(* Rules of the cascade that an earlier rule always takes the place of.    *)

\* the rules of the transactions returned by the rule-based parser
RulesUsed ==
    IF result.source = "rule_based"
    THEN {result.expenses[i].rule : i \in DOMAIN result.expenses}
    ELSE {}

-----------------------------------------------------------------------------
(* Digits and transactions, without the capability.                        *)

\* the text has a decimal digit
HasDigit == \E i \in DOMAIN text : \E j \in DOMAIN text[i] : IsDigit(text[i][j])

\* parse_expense has returned and the capability was not configured
ParsedWithoutCapability == pc = "done" /\ IsParseRequest /\ ~cfg.gemini_available

-----------------------------------------------------------------------------
(* Conservation of the loan amounts.                                       *)

\* the loans of the table
LoanIndexes == {i \in DOMAIN table : IsLoan(table[i])}

\* sum over the lines of given - taken
RECURSIVE NetOfLines(_)
NetOfLines(lines) ==
    IF lines = <<>> THEN 0
    ELSE (Head(lines).given - Head(lines).taken) + NetOfLines(Tail(lines))

\* sum of the signed amounts of the rows of a set of indexes
RECURSIVE SignedSum(_)
SignedSum(S) ==
    IF S = {} THEN 0
    ELSE LET i == CHOOSE j \in S : TRUE
         IN  table[i].amount + SignedSum(S \ {i})

\* the number of lines a loan is attributed to
LinesOf(j) == Cardinality({i \in DOMAIN result.loan_details : j \in LoansOf(result.loan_details[i].key)})

\* the loan details conserve the loan amounts
Conserved ==
    /\ NetOfLines(result.loan_details) = SignedSum(LoanIndexes)
    /\ \A j \in LoanIndexes : LinesOf(j) = 1
    /\ result.loan_details = loan_details(SelectSeq(table, IsLoan))

\* every loan has a string for paid_by that is not empty
AllPayersNonEmpty ==
    \A i \in LoanIndexes : table[i].paid_by # <<>> /\ table[i].paid_by[1] # <<>>

\* every loan has a string for paid_by that is not blank
AllPayersNonBlank ==
    \A i \in LoanIndexes : table[i].paid_by # <<>> /\ strip(table[i].paid_by[1]) # <<>>

\* C26 as stated: when every loan carries a non-empty string paid_by, the
\* sum over the persons written of given - taken is the sum of the signed
\* amounts of the loans, each loan is attributed to exactly one person, and
\* the rows that are no loans change nothing.
C26_Conservation == (pc = "prepared" /\ AllPayersNonEmpty) => Conserved

\* C26, amended: the same when every loan carries a paid_by that is not
\* blank, i.e. not empty after its blanks are trimmed.
C26_ConservationNonBlank == (pc = "prepared" /\ AllPayersNonBlank) => Conserved

\* two spellings of one person, another person and an expense: 400 - 100 for
\* the first, 400 for the second, 700 in all
C26_Witness ==
    /\ pc = "prepared"
    /\ AllPayersNonBlank
    /\ Len(table) = 3
    /\ table[1] = LoanRow(400, <<Title(w_sonu)>>)
    /\ table[2] = LoanRow(-100, <<w_onu>>)
    /\ table[3] = LoanRow(400, <<w_ram>>)
    /\ Len(result.loan_details) = 2
    /\ NetOfLines(result.loan_details) = 700
-----------------------------------------------------------------------------
(* A chat request without transactions.                                    *)

\* a chat request whose table is empty is being served or has been served
ChatOfEmptyTable ==
    /\ table = <<>>
    /\ pc \notin {"idle", "parse_start", "ai_wait", "rule_based", "simple_extract"}
    /\ ~IsParseRequest

\* C27: a chat request whose table is empty gets the fixed "no expenses
\* recorded yet" reply; no call of the capability is made and neither the
\* analysis nor the router runs, whatever the question and the configuration.
C27_EmptyTableReply ==
    ChatOfEmptyTable
        => /\ pc \in {"chat_start", "done"}
           /\ trace = <<>>
           /\ inflight = 0
           /\ cap = NoResponse
           /\ analysis = NoAnalysis
           /\ pc = "done" => result = ChatReply("no_expenses_yet", "empty_table")

\* the fixed reply, with the retrieval-augmented prompt available
C27_Witness ==
    /\ ChatOfEmptyTable
    /\ pc = "done"
    /\ rag_available(cfg)
    /\ text # <<>>
    /\ result.reply = "no_expenses_yet"
-----------------------------------------------------------------------------
(* The who-paid branch and the categories.                                 *)

\* a who-paid question that names a category of self.categories
WhoPaidOfCategory ==
    /\ any_word(query_lower(text), who_paid_words)
    /\ category_found(query_lower(text)) # <<>>

\* a detected category has a positive amount in the analysis
DetectedSpend ==
    \E i \in DOMAIN Detected : dict_get(RouterSnapshot.categories, Detected[i]) > 0

\* C28: the who-paid branch answers a question that names a category only
\* when no detected category has a positive amount; the reply "The last
\* <category> expense was ... paid by <person>" is never given, and a
\* who-paid question naming a category with spending is answered by the
\* category branches.
C28_WhoPaidCategory ==
    Answered
        => /\ (result.branch = 13 /\ WhoPaidOfCategory) => ~DetectedSpend
           /\ result.branch = 13 => result.reply # "last_category_expense"
           /\ (WhoPaidOfCategory /\ DetectedSpend /\ ~Trigger(1)) => result.branch \in {2, 3}

\* "who paid food" with a food expense paid by Ram: answered by the branch of
\* the single category
C28_Witness ==
    /\ Answered
    /\ text = <<w_who, w_paid, w_food>>
    /\ \E i \in DOMAIN table : has_payer(table[i]) /\ Lower(table[i].category[1]) = w_food
    /\ DetectedSpend
    /\ result.branch = 3

\* "who paid food rent" without food or rent spending reaches the who-paid
\* branch, which finds no recent food expense
WhoPaidCategoryReached ==
    /\ Answered
    /\ WhoPaidOfCategory
    /\ result.branch = 13
    /\ result.reply = "no_recent_category_expenses"

\* ---------------------------------------------------------------------
\* The summary of the context against the summary of the analyzer
\* ---------------------------------------------------------------------

\* the three totals analyze_expenses computes for a list
analyzer_totals(expenses_data) ==
    LET a == analyze_expenses(expenses_data)
    IN  [total_expense |-> a.total, total_income |-> a.total_income,
         net_balance |-> a.net_balance]

\* a context with summary lines has been prepared
SummaryPrepared == pc = "prepared" /\ result.summary # <<>>

HasLoanRow == \E i \in DOMAIN table : IsLoan(table[i])

\* C29: the total expense, total income and net balance of the prepared
\* context equal the total, total_income and net_balance analyze_expenses
\* computes for the same list, Loan transactions included.
C29_SummariesAgree ==
    SummaryPrepared => result.summary[1] = analyzer_totals(table)

\* what the code guarantees: the summaries agree on the lists without a
\* Loan transaction
SummariesAgreeWithoutLoans ==
    (SummaryPrepared /\ ~HasLoanRow) => result.summary[1] = analyzer_totals(table)

\* a list with a Loan transaction whose two summaries differ
SummariesDifferOnLoan ==
    /\ SummaryPrepared
    /\ HasLoanRow
    /\ result.summary[1].total_expense # analyzer_totals(table).total_expense

\* ---------------------------------------------------------------------
\* The store of password-reset codes (api/auth.py)
\* ---------------------------------------------------------------------

\* str() of a non-negative integer: its decimal digits
RECURSIVE str(_)
str(n) ==
    IF n < 10 THEN <<Digits[n + 1]>>
    ELSE Append(str(n \div 10), Digits[(n % 10) + 1])

\* random.randint(100000, 999999)
OtpLow == 100000
OtpHigh == 999999

\* seconds an entry stays valid
OtpLifetime == 600

\* the draws of random.randint the model takes: both ends of the range
Draws == {OtpLow, OtpHigh}

Emails == {"a@example.com", "b@example.com"}

\* the otp texts of a verification request: every code that can be issued,
\* and the low one written with a leading zero
RequestOtps == {str(d) : d \in Draws} \cup {<<"0">> \o str(OtpLow)}

\* seconds the clock advances in one step, the last second of the clock,
\* and the number of calls of a behaviour
TickStep == 300
MaxTime == 900
MaxCalls == 3

\* otp_store[email] = value
store_set(store, email, value) ==
    [e \in DOMAIN store \cup {email} |-> IF e = email THEN value ELSE store[e]]

\* del otp_store[email]
store_del(store, email) == [e \in DOMAIN store \ {email} |-> store[e]]

EmptyStore == store_del(<<>>, "")

\* send_reset_otp with the given draw as the random number, at time t:
\* the store it leaves and the response
send_reset_otp(store, email, draw, t) ==
    LET otp == str(draw)
    IN  [store   |-> store_set(store, email, [otp |-> otp, expires |-> t + OtpLifetime]),
         status  |-> 200,
         detail  |-> "OTP generated successfully",
         otp     |-> <<otp>>]

\* verify_reset_otp that keeps the entry of a verified code
verify_keeps_entry(store, email, otp, t) ==
    IF email \notin DOMAIN store
    THEN [store |-> store, status |-> 400, detail |-> "No OTP found for this email",
          otp |-> <<>>]
    ELSE IF t > store[email].expires
    THEN [store |-> store_del(store, email), status |-> 400,
          detail |-> "OTP has expired", otp |-> <<>>]
    ELSE IF store[email].otp # otp
    THEN [store |-> store, status |-> 400, detail |-> "Invalid OTP", otp |-> <<>>]
    ELSE [store |-> store, status |-> 200,
          detail |-> "OTP verified successfully", otp |-> <<>>]

\* verify_reset_otp at time t: the store it leaves and the response
verify_reset_otp(store, email, otp, t) ==
    IF email \notin DOMAIN store
    THEN [store |-> store, status |-> 400, detail |-> "No OTP found for this email",
          otp |-> <<>>]
    ELSE IF t > store[email].expires
    THEN [store |-> store_del(store, email), status |-> 400,
          detail |-> "OTP has expired", otp |-> <<>>]
    ELSE IF store[email].otp # otp
    THEN [store |-> store, status |-> 400, detail |-> "Invalid OTP", otp |-> <<>>]
    ELSE [store |-> store_del(store, email), status |-> 200,
          detail |-> "OTP verified successfully", otp |-> <<>>]

\* one line of the log of calls: the request, the time of the call, the
\* response and the store before and after the call
Call(op, email, otp, t, response, before) ==
    [op |-> op, email |-> email, otp |-> otp, at |-> t, status |-> response.status,
     detail |-> response.detail, before |-> before, after |-> response.store]

\* POST /send-reset-otp
SendResetOtp ==
    /\ Len(trace) < MaxCalls
    /\ \E email \in Emails, draw \in Draws :
          LET response == send_reset_otp(otp_store, email, draw, time)
          IN  /\ otp_store' = response.store
              /\ result' = [status |-> response.status, detail |-> response.detail,
                            otp |-> response.otp]
              /\ trace' = Append(trace, Call("send", email, str(draw), time, response,
                                             otp_store))
    /\ pc' = "sent"
    /\ UNCHANGED <<text, table, analysis, cfg, cap, inflight, now, time>>

\* POST /verify-reset-otp
VerifyResetOtp ==
    /\ Len(trace) < MaxCalls
    /\ \E email \in Emails, otp \in RequestOtps :
          LET response == verify_reset_otp(otp_store, email, otp, time)
          IN  /\ otp_store' = response.store
              /\ result' = [status |-> response.status, detail |-> response.detail,
                            otp |-> response.otp]
              /\ trace' = Append(trace, Call("verify", email, otp, time, response,
                                             otp_store))
    /\ pc' = "verified"
    /\ UNCHANGED <<text, table, analysis, cfg, cap, inflight, now, time>>

\* time passes between two calls
Tick ==
    /\ time + TickStep <= MaxTime
    /\ time' = time + TickStep
    /\ UNCHANGED <<pc, text, result, table, analysis, cfg, cap, trace, inflight, now,
                   otp_store>>

OtpInit ==
    /\ pc = "idle"
    /\ text = <<>>
    /\ result = NoResult
    /\ table = <<>>
    /\ analysis = NoAnalysis
    /\ cfg = [gemini_available |-> TRUE, rag |-> "gemini"]
    /\ cap = NoResponse
    /\ trace = <<>>
    /\ inflight = 0
    /\ now = ReferenceNow
    /\ otp_store = EmptyStore
    /\ time = 0

OtpNext == SendResetOtp \/ VerifyResetOtp \/ Tick

OtpSpec == OtpInit /\ [][OtpNext]_vars

\* ---------------------------------------------------------------------
\* The store of reset codes over a sequence of calls
\* ---------------------------------------------------------------------

IsSend(i) == trace[i].op = "send"

IsVerify(i) == trace[i].op = "verify"

\* the verification of call i succeeded
Verified(i) == IsVerify(i) /\ trace[i].status = 200

\* the verification of call i found an entry whose time had passed
Expired(i) == IsVerify(i) /\ trace[i].detail = "OTP has expired"

\* a code was sent to the email between the calls i and j
SendBetween(email, i, j) ==
    \E k \in (i + 1)..(j - 1) : IsSend(k) /\ trace[k].email = email

\* the last send to the email before call j (0: none)
LastSendBefore(email, j) ==
    LET sends == {k \in 1..(j - 1) : IsSend(k) /\ trace[k].email = email}
    IN  IF sends = {} THEN 0 ELSE CHOOSE k \in sends : \A m \in sends : m <= k

\* call i is a verification with a code other than the stored one
WrongCode(i) ==
    /\ IsVerify(i)
    /\ trace[i].email \in DOMAIN trace[i].before
    /\ trace[i].before[trace[i].email].otp # trace[i].otp

\* one issued code verifies at most once: two successful verifications for
\* an email have a send to that email between them, and each verifies the
\* code of the last send
AtMostOnce ==
    /\ \A i, j \in DOMAIN trace :
          (i < j /\ Verified(i) /\ Verified(j) /\ trace[i].email = trace[j].email)
             => SendBetween(trace[i].email, i, j)
    /\ \A j \in DOMAIN trace :
          Verified(j) =>
             /\ LastSendBefore(trace[j].email, j) # 0
             /\ trace[LastSendBefore(trace[j].email, j)].otp = trace[j].otp

\* a successful or expired verification deletes the entry, and the next
\* verification with the same code answers "No OTP found"
DeletedAfterUse ==
    /\ \A i \in DOMAIN trace :
          (Verified(i) \/ Expired(i)) =>
             trace[i].after = store_del(trace[i].before, trace[i].email)
    /\ \A i, j \in DOMAIN trace :
          (/\ i < j
           /\ Verified(i) \/ Expired(i)
           /\ IsVerify(j)
           /\ trace[j].email = trace[i].email
           /\ trace[j].otp = trace[i].otp
           /\ ~SendBetween(trace[i].email, i, j))
             => /\ trace[j].status = 400
                /\ trace[j].detail = "No OTP found for this email"

\* a send replaces the entry of the email and touches no other entry
SendReplaces ==
    \A i \in DOMAIN trace :
       IsSend(i) =>
          /\ trace[i].after =
                store_set(trace[i].before, trace[i].email,
                          [otp |-> trace[i].otp, expires |-> trace[i].at + OtpLifetime])
          /\ \A j \in DOMAIN trace :
                (/\ i < j
                 /\ IsVerify(j)
                 /\ trace[j].email = trace[i].email
                 /\ i = LastSendBefore(trace[j].email, j)
                 /\ trace[j].otp # trace[i].otp)
                   => ~Verified(j)

\* every verification with a wrong code leaves the store as it was
WrongCodeKeeps ==
    \A i \in DOMAIN trace : WrongCode(i) => trace[i].after = trace[i].before

\* a verification with a wrong code for an entry whose time has not passed
\* answers "Invalid OTP" and leaves the store as it was
UnexpiredWrongCodeKeeps ==
    \A i \in DOMAIN trace :
       (WrongCode(i) /\ trace[i].at <= trace[i].before[trace[i].email].expires)
          => /\ trace[i].detail = "Invalid OTP"
             /\ trace[i].after = trace[i].before

\* the store is the one the last call left
StoreFollowsLog ==
    otp_store = IF trace = <<>> THEN EmptyStore ELSE trace[Len(trace)].after

\* C30 as stated: over any sequence of send and verify calls an issued code
\* verifies at most once (a successful or expired verification deletes the
\* entry and the next verify with the same code answers "No OTP found"), a
\* new send replaces the previous code, and a verify with a wrong code
\* leaves the stored code and its expiry unchanged.
C30_OtpStore ==
    /\ StoreFollowsLog
    /\ AtMostOnce
    /\ DeletedAfterUse
    /\ SendReplaces
    /\ WrongCodeKeeps

\* C30 with the last part restricted to entries whose time has not passed:
\* an issued code verifies at most once, a successful or expired
\* verification deletes the entry, a new send replaces the previous code,
\* and a verify with a wrong code for an unexpired entry leaves the stored
\* code and its expiry unchanged.
C30_OtpStoreUnexpired ==
    /\ StoreFollowsLog
    /\ AtMostOnce
    /\ DeletedAfterUse
    /\ SendReplaces
    /\ UnexpiredWrongCodeKeeps

\* a code was sent, a wrong code was answered "Invalid OTP" and left the
\* entry, and the sent code then verified and deleted it
C30_Witness ==
    /\ Len(trace) = 3
    /\ IsSend(1)
    /\ WrongCode(2) /\ trace[2].detail = "Invalid OTP" /\ trace[2].email = trace[1].email
    /\ Verified(3) /\ trace[3].email = trace[1].email
    /\ trace[1].email \notin DOMAIN otp_store

\* a verified code was tried again and answered "No OTP found"
SecondVerifyFails ==
    /\ Len(trace) = 3
    /\ Verified(2)
    /\ IsVerify(3) /\ trace[3].email = trace[2].email /\ trace[3].otp = trace[2].otp
    /\ trace[3].detail = "No OTP found for this email"

\* the code of an earlier send was tried after a new send and rejected
ReplacedCodeRejected ==
    /\ Len(trace) = 3
    /\ IsSend(1) /\ IsSend(2) /\ trace[2].email = trace[1].email
    /\ IsVerify(3) /\ trace[3].email = trace[1].email /\ trace[3].otp = trace[1].otp
    /\ trace[3].detail = "Invalid OTP"

\* a wrong code for an entry whose time had passed deleted the entry
ExpiredWrongCodeDeletes ==
    \E i \in DOMAIN trace :
       /\ WrongCode(i)
       /\ Expired(i)
       /\ trace[i].email \notin DOMAIN trace[i].after

\* a code was still accepted in the last second of its lifetime
VerifiedAtExpiry ==
    \E i \in DOMAIN trace :
       Verified(i) /\ trace[i].at = trace[i].before[trace[i].email].expires
====
